---- MODULE Spec2Model ----
(***************************************************************************)
(* Model of the AI service of the Emotions Diary application               *)
(* (src/services/ai-service.ts): analyzeEmotion, generateTags, chatWithAI  *)
(* and streamChatResponse, each driven by a completion transport whose     *)
(* behaviour is chosen nondeterministically; and of its diary store        *)
(* (useDiaryStore in src/store/auth-store.ts), whose async operations      *)
(* interleave at their awaits over the backend's diary_entries table.      *)
(*                                                                         *)
(* SpecAnalyze, SpecTags and SpecChat are one call of one operation,       *)
(* SpecService one call of any of the four, SpecDiary the store.           *)
(* SpecHandlers is the store with the handlers of the pages that await     *)
(* its operations and show toasts, the editor they open, and the render of *)
(* the page with its error effects as a step of its own;                   *)
(* SpecAuth is the auth store (useAuthStore),                              *)
(* SpecPages the pages that render, and sort, the entries of the store,    *)
(* SpecChatPage the chat page over the chat store (useChatStore), with the *)
(* render that gives its handlers their values as a step of its own.       *)
(*                                                                         *)
(* JavaScript values are records tagged with their type, [t |-> <type>,    *)
(* <payload>]; the payload field is named after the type.                  *)
(* Numbers are fixed-point tenths: Num(25) is 2.5, Num(-10) is -1.         *)
(* A JSON text is a sequence of tokens; JSONParse is a recursive-descent   *)
(* parser over tokens, JSONStringify the matching printer used to build    *)
(* the transport's texts.                                                  *)
(* The completion text of generateTags and the content of a diary entry    *)
(* are sequences of characters.                                            *)
(***************************************************************************)
EXTENDS Integers, Sequences, FiniteSets, TLC

VARIABLES
    aPc,          \* position of the analyzeEmotion call: "idle", "awaiting", "done"
    aContent,     \* the diary text handed to analyzeEmotion
    aTransport,   \* what the completion transport did for that call
    aOutcome,     \* how the promise returned by analyzeEmotion settled
    aRequests,    \* completion requests issued by the call
    cOp,          \* the chat operation called: "none", "chat", "stream"
    cHistory,     \* its messages argument
    cContext,     \* its diaryContext argument
    cSent,        \* the messages submitted to the transport
    cRequests,    \* completion requests issued by the chat operation
    cPc,          \* position of the chatWithAI call: "idle", "awaiting", "done"
    cTransport,   \* what the transport did for chatWithAI
    cOutcome,     \* how the promise returned by chatWithAI settled
    sPc,          \* position of the streamChatResponse generator
    sTaken,       \* the chunks the generator took from the stream, in order
    sEnd,         \* the transport of the stream: "open", "rejected", "ended", "failed"
    sYielded,     \* the fragments the generator yielded to its consumer, in order
    gPc,          \* position of the generateTags call: "idle", "awaiting", "done"
    gContent,     \* the text generateTags was called with
    gTransport,   \* what the completion transport did for that call
    gOutcome,     \* how the promise returned by generateTags settled
    gRequests,    \* completion requests issued by the call
    table,        \* the diary_entries table of the backend: _id -> item
    nextId,       \* the _id the backend assigns to the next item
    entries,      \* the diary store's entries
    isLoading,    \* the diary store's isLoading
    isAnalyzing,  \* the diary store's isAnalyzing
    error,        \* the diary store's error
    now,          \* the clock read by Date.now()
    calls,        \* the calls of the store's async operations, in call order
    toasts,       \* the notifications shown by the pages, in the order shown
    resumed,      \* the calls whose awaiting handler has gone on
    shown,        \* the diary store's error as the page last rendered it
    editor,       \* the DiaryEditor of the page: open or not, and its entry
    mounted,      \* DiaryEditor was rendered by the last render of the page
    user,         \* the auth store's user
    isAuthenticated, \* the auth store's isAuthenticated
    authIsLoading,   \* the auth store's isLoading
    authError,    \* the auth store's error
    authCalls,    \* the calls of the auth store's async operations, in call order
    page,         \* the page that is rendered: "none", "home", "entries", "chat"
    sortBy,       \* EntriesPage's sortBy
    searchTerm,   \* EntriesPage's searchTerm
    dateFilter,   \* EntriesPage's dateFilter
    diaryContext, \* the last diaryContext ChatPage built
    storedMessages, \* useChatStore: messages, the conversation
    isStreaming,  \* useChatStore: isStreaming
    chatIsLoading, \* useChatStore: isLoading
    input,        \* ChatPage's input
    view,         \* what the last render of ChatPage read: its handlers' closure
    sends         \* the calls of handleSendMessage that passed its guard

avars == <<aPc, aContent, aTransport, aOutcome, aRequests>>

cvars == <<cOp, cHistory, cContext, cSent, cRequests, cPc, cTransport, cOutcome>>

svars == <<sPc, sTaken, sEnd, sYielded>>

gvars == <<gPc, gContent, gTransport, gOutcome, gRequests>>

dvars == <<table, nextId, entries, isLoading, isAnalyzing, error, now, calls>>

\* The notifications of the pages.
nvars == <<toasts, resumed, shown, editor, mounted>>

\* The auth store.
uvars == <<user, isAuthenticated, authIsLoading, authError, authCalls>>

\* The page that is rendered, with its state.
evars == <<page, sortBy, searchTerm, dateFilter, diaryContext>>

\* The chat store and ChatPage.
hvars == <<storedMessages, isStreaming, chatIsLoading, input, view, sends>>

\* The state of the pages and of their stores.
pvars == <<nvars, uvars, evars, hvars>>

vars == <<avars, cvars, svars, gvars, dvars, pvars>>

-----------------------------------------------------------------------------
(* JavaScript values *)

Undefined == [t |-> "undefined"]
Null == [t |-> "null"]
NaN == [t |-> "NaN"]
Bool(b) == [t |-> "boolean", b |-> b]
Num(n) == [t |-> "number", n |-> n]
Str(s) == [t |-> "string", s |-> s]
Arr(s) == [t |-> "array", a |-> s]
Obj(f) == [t |-> "object", o |-> f]
\* A string held as the tokens of its text (the completion's content).
Text(ts) == [t |-> "text", ts |-> ts]
\* A string held as the sequence of its characters.
Chars(cs) == [t |-> "chars", cs |-> cs]

EmptyObject == Obj(<<>>)

\* typeof v
TypeOf(v) ==
    CASE v.t = "NaN" -> "number"
      [] v.t \in {"array", "null"} -> "object"
      [] v.t \in {"text", "chars"} -> "string"
      [] OTHER -> v.t

\* The characters of the strings the model takes substrings of, and of
\* their prefixes.
StringChars ==
    ("" :> <<>>) @@
    ("o" :> <<"o">>) @@
    ("ok" :> <<"o", "k">>) @@
    ("h" :> <<"h">>) @@
    ("ha" :> <<"h", "a">>) @@
    ("hap" :> <<"h", "a", "p">>) @@
    ("happ" :> <<"h", "a", "p", "p">>) @@
    ("happy" :> <<"h", "a", "p", "p", "y">>) @@
    ("j" :> <<"j">>) @@
    ("jo" :> <<"j", "o">>) @@
    ("joy" :> <<"j", "o", "y">>) @@
    ("joyf" :> <<"j", "o", "y", "f">>) @@
    ("joyfu" :> <<"j", "o", "y", "f", "u">>) @@
    ("joyful" :> <<"j", "o", "y", "f", "u", "l">>)

\* Numeric literals among the model's strings, in tenths.
NumericStrings == ("0.5" :> 5) @@ ("7" :> 70)

MinOf(a, b) == IF a <= b THEN a ELSE b
MaxOf(a, b) == IF a >= b THEN a ELSE b

\* ToBoolean(v): the truthiness tested by || and !
Truthy(v) ==
    CASE v.t \in {"undefined", "null", "NaN"} -> FALSE
      [] v.t = "boolean" -> v.b
      [] v.t = "number" -> v.n # 0
      [] v.t = "string" -> v.s # ""
      [] v.t = "text" -> v.ts # <<>>
      [] v.t = "chars" -> v.cs # <<>>
      [] OTHER -> TRUE

\* a || b
Or(a, b) == IF Truthy(a) THEN a ELSE b

\* Number(s) for a string s
StringToNumber(s) ==
    IF s = "" THEN Num(0)
    ELSE IF s \in DOMAIN NumericStrings THEN Num(NumericStrings[s])
    ELSE NaN

\* ToNumber(v), as applied by Math.min and Math.max to their arguments.
\* An array converts through its join: [] is "", [x] is String(x).
RECURSIVE ToNumber(_)
ToNumber(v) ==
    CASE v.t = "undefined" -> NaN
      [] v.t = "null" -> Num(0)
      [] v.t = "NaN" -> NaN
      [] v.t = "boolean" -> IF v.b THEN Num(10) ELSE Num(0)
      [] v.t = "number" -> v
      [] v.t = "string" -> StringToNumber(v.s)
      [] v.t = "array" ->
            IF Len(v.a) = 0 THEN Num(0)
            ELSE IF Len(v.a) > 1 THEN NaN
            ELSE IF v.a[1].t \in {"undefined", "null"} THEN Num(0)
            ELSE IF v.a[1].t \in {"boolean", "object"} THEN NaN
            ELSE ToNumber(v.a[1])
      [] OTHER -> NaN

\* Math.min(a, b) and Math.max(a, b): NaN when either argument converts to NaN.
MathMin(a, b) ==
    LET x == ToNumber(a)
        y == ToNumber(b)
    IN  IF x = NaN \/ y = NaN THEN NaN ELSE Num(MinOf(x.n, y.n))

MathMax(a, b) ==
    LET x == ToNumber(a)
        y == ToNumber(b)
    IN  IF x = NaN \/ y = NaN THEN NaN ELSE Num(MaxOf(x.n, y.n))

\* The completion of an expression: a value, or a thrown exception.
Normal(v) == [thrown |-> FALSE, value |-> v]
Throw == [thrown |-> TRUE, value |-> Undefined]

\* v[key] for a property name that no prototype defines: a TypeError on null
\* and undefined, the own property of an object, undefined otherwise.
Get(v, key) ==
    IF v.t \in {"null", "undefined"} THEN Throw
    ELSE IF v.t = "object" /\ key \in DOMAIN v.o THEN Normal(v.o[key])
    ELSE Normal(Undefined)

\* A faulty slice that stops one element early: slice(0, n - 1).
SliceShort(v, n) ==
    CASE v.t = "array" -> Normal(Arr(SubSeq(v.a, 1, MinOf(n - 1, Len(v.a)))))
      [] v.t = "string" ->
            LET cs == StringChars[v.s]
                pre == SubSeq(cs, 1, MinOf(n - 1, Len(cs)))
            IN  Normal(Str(CHOOSE s \in DOMAIN StringChars : StringChars[s] = pre))
      [] OTHER -> Throw

\* v.slice(0, n): the first n elements of an array, the first n characters
\* of a string; a TypeError for a value that has no slice method.
Slice(v, n) ==
    CASE v.t = "array" -> Normal(Arr(SubSeq(v.a, 1, MinOf(n, Len(v.a)))))
      [] v.t = "string" ->
            LET cs == StringChars[v.s]
                pre == SubSeq(cs, 1, MinOf(n, Len(cs)))
            IN  Normal(Str(CHOOSE s \in DOMAIN StringChars : StringChars[s] = pre))
      [] OTHER -> Throw

-----------------------------------------------------------------------------
(* JSON texts *)

\* Tokens of a text: punctuation, string and number literals, the literals
\* true, false and null, and any other word (prose, which JSON does not admit).
P(s) == [k |-> "punct", v |-> s]
TStr(s) == [k |-> "string", v |-> s]
TNum(n) == [k |-> "number", n |-> n]
TLit(s) == [k |-> "literal", v |-> s]
TWord(s) == [k |-> "word", v |-> s]

POk(v, rest) == [ok |-> TRUE, val |-> v, rest |-> rest]
PFail == [ok |-> FALSE, val |-> Undefined, rest |-> <<>>]

LiteralValue(s) ==
    CASE s = "true" -> Bool(TRUE)
      [] s = "false" -> Bool(FALSE)
      [] OTHER -> Null

RECURSIVE ParseValue(_), ParseMembers(_, _), ParseElements(_, _)

\* One JSON value at the head of ts, and the tokens after it.
ParseValue(ts) ==
    IF ts = <<>> THEN PFail
    ELSE LET h == Head(ts)
             r == Tail(ts)
         IN  CASE h.k = "string" -> POk(Str(h.v), r)
               [] h.k = "number" -> POk(Num(h.n), r)
               [] h.k = "literal" -> POk(LiteralValue(h.v), r)
               [] h = P("{") ->
                     IF r # <<>> /\ Head(r) = P("}")
                     THEN POk(EmptyObject, Tail(r))
                     ELSE ParseMembers(r, <<>>)
               [] h = P("[") ->
                     IF r # <<>> /\ Head(r) = P("]")
                     THEN POk(Arr(<<>>), Tail(r))
                     ELSE ParseElements(r, <<>>)
               [] OTHER -> PFail

\* The members of an object after "{" or ",": a later duplicate key wins.
ParseMembers(ts, acc) ==
    IF Len(ts) < 2 \/ ts[1].k # "string" \/ ts[2] # P(":") THEN PFail
    ELSE LET pv == ParseValue(SubSeq(ts, 3, Len(ts)))
             acc2 == (ts[1].v :> pv.val) @@ acc
         IN  IF ~pv.ok \/ pv.rest = <<>> THEN PFail
             ELSE IF Head(pv.rest) = P("}") THEN POk(Obj(acc2), Tail(pv.rest))
             ELSE IF Head(pv.rest) = P(",") THEN ParseMembers(Tail(pv.rest), acc2)
             ELSE PFail

\* The elements of an array after "[" or ",".
ParseElements(ts, acc) ==
    LET pv == ParseValue(ts)
        acc2 == Append(acc, pv.val)
    IN  IF ~pv.ok \/ pv.rest = <<>> THEN PFail
        ELSE IF Head(pv.rest) = P("]") THEN POk(Arr(acc2), Tail(pv.rest))
        ELSE IF Head(pv.rest) = P(",") THEN ParseElements(Tail(pv.rest), acc2)
        ELSE PFail

\* A faulty JSON.parse that stops at the end of the first value and ignores
\* what follows it.
JSONParseLenient(ts) ==
    LET p == ParseValue(ts)
    IN  IF p.ok THEN Normal(p.val) ELSE Throw

\* JSON.parse(text): the value, or a SyntaxError when the text is not exactly
\* one JSON value.
JSONParse(ts) ==
    LET p == ParseValue(ts)
    IN  IF p.ok /\ p.rest = <<>> THEN Normal(p.val) ELSE Throw

\* The order in which an object's members are printed.
KeyOrder == <<"mood", "sentiment", "emotions", "tags", "summary", "note">>

RECURSIVE JSONStringify(_), StringifyElements(_, _), StringifyMembers(_, _, _)

\* The text of a JSON value, as the transport would send it.
JSONStringify(v) ==
    CASE v.t = "string" -> <<TStr(v.s)>>
      [] v.t = "number" -> <<TNum(v.n)>>
      [] v.t = "boolean" -> <<TLit(IF v.b THEN "true" ELSE "false")>>
      [] v.t = "array" -> <<P("[")>> \o StringifyElements(v.a, 1) \o <<P("]")>>
      [] v.t = "object" -> <<P("{")>> \o StringifyMembers(v.o, 1, TRUE) \o <<P("}")>>
      [] OTHER -> <<TLit("null")>>

StringifyElements(s, i) ==
    IF i > Len(s) THEN <<>>
    ELSE (IF i > 1 THEN <<P(",")>> ELSE <<>>)
         \o JSONStringify(s[i]) \o StringifyElements(s, i + 1)

StringifyMembers(f, i, first) ==
    IF i > Len(KeyOrder) THEN <<>>
    ELSE IF KeyOrder[i] \notin DOMAIN f THEN StringifyMembers(f, i + 1, first)
    ELSE (IF first THEN <<>> ELSE <<P(",")>>)
         \o <<TStr(KeyOrder[i]), P(":")>> \o JSONStringify(f[KeyOrder[i]])
         \o StringifyMembers(f, i + 1, FALSE)

-----------------------------------------------------------------------------
(* analyzeEmotion *)

\* -1 and 1, the bounds of the sentiment scale, in tenths.
MinSentiment == -10
MaxSentiment == 10
MaxEmotions == 3
MaxTags == 5

\* What the completion transport does with one non-streaming request: the
\* call rejects, the response has no choices, or choices[0].message.content
\* is c.
Rejects == [kind |-> "reject", content |-> Undefined]
NoChoices == [kind |-> "nochoices", content |-> Undefined]
Message(c) == [kind |-> "message", content |-> c]
NoTransport == [kind |-> "none", content |-> Undefined]

\* How an async function's promise settles, and whether console.error ran.
Pending == [state |-> "pending", value |-> Undefined, logged |-> FALSE]
Fulfilled(v, logged) == [state |-> "fulfilled", value |-> v, logged |-> logged]
Rejected == [state |-> "rejected", value |-> Undefined, logged |-> FALSE]

\* The object literal of the catch block.
FallbackAnalysis ==
    [mood |-> Str("neutral"),
     sentiment |-> Num(0),
     emotions |-> Arr(<<Str("reflective")>>),
     tags |-> Arr(<<Str("personal")>>),
     summary |-> Str("Unable to analyze emotions at this time")]

\* A faulty sanitization without the || defaults of emotions and tags:
\* slice is called on the field as parsed.
SanitizeAnalysisNoDefaults(analysis) ==
    IF Get(analysis, "mood").thrown THEN Throw
    ELSE LET mood == Or(Get(analysis, "mood").value, Str("neutral"))
             sentiment ==
                 MathMax(Num(MinSentiment),
                         MathMin(Num(MaxSentiment),
                                 Or(Get(analysis, "sentiment").value, Num(0))))
             emotions == Slice(Get(analysis, "emotions").value, MaxEmotions)
             tags == Slice(Get(analysis, "tags").value, MaxTags)
             summary ==
                 Or(Get(analysis, "summary").value, Str("Entry analyzed successfully"))
         IN  IF emotions.thrown \/ tags.thrown THEN Throw
             ELSE Normal([mood |-> mood,
                          sentiment |-> sentiment,
                          emotions |-> emotions.value,
                          tags |-> tags.value,
                          summary |-> summary])

\* A faulty sanitization with the clamp's bounds exchanged:
\* Math.max(1, Math.min(-1, sentiment)).
SanitizeAnalysisSwapped(analysis) ==
    IF Get(analysis, "mood").thrown THEN Throw
    ELSE LET mood == Or(Get(analysis, "mood").value, Str("neutral"))
             sentiment ==
                 MathMax(Num(MaxSentiment),
                         MathMin(Num(MinSentiment),
                                 Or(Get(analysis, "sentiment").value, Num(0))))
             emotions ==
                 Slice(Or(Get(analysis, "emotions").value, Arr(<<>>)), MaxEmotions)
             tags == Slice(Or(Get(analysis, "tags").value, Arr(<<>>)), MaxTags)
             summary ==
                 Or(Get(analysis, "summary").value, Str("Entry analyzed successfully"))
         IN  IF emotions.thrown \/ tags.thrown THEN Throw
             ELSE Normal([mood |-> mood,
                          sentiment |-> sentiment,
                          emotions |-> emotions.value,
                          tags |-> tags.value,
                          summary |-> summary])

\* "Validate and sanitize": the object literal returned from the try block.
\* Reading a property of null throws; so does slice on a value without it.
SanitizeAnalysis(analysis) ==
    IF Get(analysis, "mood").thrown THEN Throw
    ELSE LET mood == Or(Get(analysis, "mood").value, Str("neutral"))
             sentiment ==
                 MathMax(Num(MinSentiment),
                         MathMin(Num(MaxSentiment),
                                 Or(Get(analysis, "sentiment").value, Num(0))))
             emotions ==
                 Slice(Or(Get(analysis, "emotions").value, Arr(<<>>)), MaxEmotions)
             tags == Slice(Or(Get(analysis, "tags").value, Arr(<<>>)), MaxTags)
             summary ==
                 Or(Get(analysis, "summary").value, Str("Entry analyzed successfully"))
         IN  IF emotions.thrown \/ tags.thrown THEN Throw
             ELSE Normal([mood |-> mood,
                          sentiment |-> sentiment,
                          emotions |-> emotions.value,
                          tags |-> tags.value,
                          summary |-> summary])

\* The try block of analyzeEmotion from the await on: its return value, or
\* the exception that reaches the catch block.
AnalyzeTry(tr) ==
    IF tr.kind = "reject" THEN Throw
    ELSE IF tr.kind = "nochoices" THEN Throw
    ELSE IF ~Truthy(tr.content) THEN Throw
    ELSE LET parsed == JSONParse(tr.content.ts)
         IN  IF parsed.thrown THEN Throw
             ELSE SanitizeAnalysis(parsed.value)

\* A faulty analyzeEmotion: no catch block, an exception rejects the promise.
analyzeEmotionNoCatch(content, tr) ==
    LET c == AnalyzeTry(tr)
    IN  IF c.thrown THEN Rejected ELSE Fulfilled(c.value, FALSE)

\* analyzeEmotion(content) when the transport does tr: the catch block logs
\* and returns the fallback analysis.
analyzeEmotion(content, tr) ==
    LET c == AnalyzeTry(tr)
    IN  IF c.thrown THEN Fulfilled(FallbackAnalysis, TRUE)
        ELSE Fulfilled(c.value, FALSE)

-----------------------------------------------------------------------------
(* The transport's answers to analyzeEmotion *)

\* Longest emotions and tags arrays the transport sends.
MaxEmotionsLen == 4
MaxTagsLen == 6

Pool == <<"a", "b", "c", "d", "e", "f", "g", "h">>

\* The array of the first n strings of Pool.
StringList(n) == Arr([i \in 1..n |-> Str(Pool[i])])

\* What a field of the response object may hold; Undefined: the field is absent.
MoodValues == {Undefined, Str("happy"), Str(""), Num(50)}
SentimentValues ==
    {Undefined, Str("abc"), Str("0.5")} \cup {Num(n) : n \in {-25, -10, 0, 8, 25}}
EmotionsValues ==
    {Undefined, Str("happy"), Num(50)}
        \cup {StringList(n) : n \in {0} \cup (MaxEmotions..MaxEmotionsLen)}
TagsValues ==
    {Undefined, Bool(TRUE)}
        \cup {StringList(n) : n \in {0} \cup (MaxTags..MaxTagsLen)}
SummaryValues == {Undefined, Str("s"), Str("")}

Fields == {"mood", "sentiment", "emotions", "tags", "summary"}

\* The object holding the given fields, without those that are Undefined.
MakeObject(m, s, e, t, u) ==
    LET all == [mood |-> m, sentiment |-> s, emotions |-> e, tags |-> t, summary |-> u]
        present == {k \in Fields : all[k] # Undefined}
    IN  Obj([k \in present |-> all[k]])

ResponseObjects ==
    {MakeObject(m, s, e, t, u) :
        m \in MoodValues, s \in SentimentValues, e \in EmotionsValues,
        t \in TagsValues, u \in SummaryValues}

\* A response within all bounds.
ParkDay ==
    MakeObject(Str("happy"), Num(8), Arr(<<Str("joyful"), Str("grateful")>>),
               Arr(<<Str("outdoors"), Str("nature")>>), Str("A joyful day outdoors."))

\* Further values of one field: wrong types, null, edge cases.
OddFields ==
    {<<"mood", Null>>, <<"mood", Bool(TRUE)>>, <<"mood", EmptyObject>>,
     <<"sentiment", Null>>, <<"sentiment", Bool(TRUE)>>, <<"sentiment", Num(10)>>,
     <<"sentiment", EmptyObject>>, <<"sentiment", Arr(<<>>)>>,
     <<"sentiment", Arr(<<Num(70)>>)>>, <<"sentiment", Arr(<<Num(1), Num(2)>>)>>,
     <<"sentiment", Str("7")>>,
     <<"emotions", Null>>, <<"emotions", Arr(<<Num(10)>>)>>,
     <<"emotions", EmptyObject>>, <<"emotions", Str("ok")>>,
     <<"emotions", StringList(1)>>, <<"emotions", StringList(2)>>,
     <<"tags", Null>>, <<"tags", Str("joyful")>>, <<"tags", Num(0)>>,
     <<"tags", Arr(<<Null>>)>>, <<"tags", StringList(1)>>, <<"tags", StringList(4)>>,
     <<"summary", Null>>, <<"summary", Num(70)>>, <<"summary", Arr(<<>>)>>,
     <<"note", Str("x")>>}

\* Such a field alone, and in place of that field of ParkDay.
OddObjects ==
    {Obj(f[1] :> f[2]) : f \in OddFields}
        \cup {Obj((f[1] :> f[2]) @@ ParkDay.o) : f \in OddFields}

\* JSON values that are not objects.
OtherValues ==
    {Null, Bool(TRUE), Bool(FALSE), Num(0), Num(50), Str("happy"), Arr(<<>>),
     Arr(<<Str("a")>>), ParkDay}

\* Texts that are not JSON: prose, a block between code fences, a cut-off object, JSON
\* followed by prose, a stray comma.
NotJSONTexts ==
    {<<TWord("I"), TWord("feel"), TWord("fine")>>,
     <<TWord("fence")>> \o JSONStringify(ParkDay) \o <<TWord("fence")>>,
     SubSeq(JSONStringify(ParkDay), 1, Len(JSONStringify(ParkDay)) - 1),
     JSONStringify(ParkDay) \o <<TWord("Hope"), TWord("this"), TWord("helps")>>,
     <<P("{"), TStr("mood"), P(":"), TStr("happy"), P(","), P("}")>>,
     <<P("["), TNum(10), P(","), P("]")>>,
     <<P("{"), TStr("mood"), TStr("happy"), P("}")>>}

JSONValues == ResponseObjects \cup OddObjects \cup OtherValues

JSONTexts == {JSONStringify(v) : v \in JSONValues}

\* Everything the transport may do with the request of analyzeEmotion.
AnalyzeTransports ==
    {Rejects, NoChoices, Message(Null), Message(Undefined), Message(Text(<<>>))}
        \cup {Message(Text(ts)) : ts \in NotJSONTexts \cup JSONTexts}

DiaryTexts == {"I had a wonderful day at the park.", ""}

-----------------------------------------------------------------------------
(* One call of analyzeEmotion *)

\* No operation of the service has been called.
AnalyzeIdle ==
    /\ aPc = "idle"
    /\ aContent = ""
    /\ aTransport = NoTransport
    /\ aOutcome = Pending
    /\ aRequests = 0

ChatIdle ==
    /\ cOp = "none"
    /\ cHistory = <<>>
    /\ cContext = Undefined
    /\ cSent = <<>>
    /\ cRequests = 0
    /\ cPc = "idle"
    /\ cTransport = NoTransport
    /\ cOutcome = Pending
    /\ sPc = "idle"
    /\ sTaken = <<>>
    /\ sEnd = "open"
    /\ sYielded = <<>>

\* The diary store as created, and an empty table.
DiaryIdle ==
    /\ table = <<>>
    /\ nextId = 1
    /\ entries = <<>>
    /\ isLoading = FALSE
    /\ isAnalyzing = FALSE
    /\ error = Null
    /\ now = 1
    /\ calls = <<>>

TagsIdle ==
    /\ gPc = "idle"
    /\ gContent = ""
    /\ gTransport = NoTransport
    /\ gOutcome = Pending
    /\ gRequests = 0

\* The state of the pages as first rendered, with their stores as created:
\* no handler has run, no editor is open and nobody is signed in.
PageStateIdle ==
    /\ toasts = <<>>
    /\ resumed = {}
    /\ shown = [t |-> "null"]
    /\ editor = [open |-> FALSE, editing |-> FALSE, entry |-> <<>>]
    /\ mounted = FALSE
    /\ user = Null
    /\ isAuthenticated = FALSE
    /\ authIsLoading = FALSE
    /\ authError = Null
    /\ authCalls = <<>>
    /\ sortBy = "newest"
    /\ searchTerm = ""
    /\ dateFilter = ""
    /\ diaryContext = [t |-> "unset"]
    /\ storedMessages = <<>>
    /\ isStreaming = FALSE
    /\ chatIsLoading = FALSE
    /\ input = <<>>
    /\ view = [input |-> <<>>, isLoading |-> FALSE, isStreaming |-> FALSE,
               messages |-> <<>>]
    /\ sends = <<>>

PagesIdle == PageStateIdle /\ page = "none"

InitAnalyze == AnalyzeIdle /\ ChatIdle /\ TagsIdle /\ DiaryIdle /\ PagesIdle

\* analyzeEmotion(content) is called: it builds the prompt and issues the
\* completion request, then awaits it.
CallAnalyze(content) ==
    /\ aPc = "idle"
    /\ aPc' = "awaiting"
    /\ aContent' = content
    /\ aRequests' = aRequests + 1
    /\ UNCHANGED <<aTransport, aOutcome, cvars, svars, gvars, dvars, pvars>>

\* The awaited request settles as tr; the rest of analyzeEmotion runs and
\* its promise settles.
AnalyzeSettles(tr) ==
    /\ aPc = "awaiting"
    /\ aPc' = "done"
    /\ aTransport' = tr
    /\ aOutcome' = analyzeEmotion(aContent, tr)
    /\ UNCHANGED <<aContent, aRequests, cvars, svars, gvars, dvars, pvars>>

NextAnalyze ==
    \/ \E content \in DiaryTexts : CallAnalyze(content)
    \/ \E tr \in AnalyzeTransports : AnalyzeSettles(tr)

SpecAnalyze == InitAnalyze /\ [][NextAnalyze]_vars

-----------------------------------------------------------------------------
(* Properties of analyzeEmotion *)

AnalyzeDone == aPc = "done"

\* The transport answered with a text.
AnsweredText == AnalyzeDone /\ aTransport.kind = "message" /\ aTransport.content.t = "text"

\* The transport answered with the text of a JSON object; Response is it.
Response == JSONParse(aTransport.content.ts).value
AnsweredObject ==
    /\ AnsweredText
    /\ ~JSONParse(aTransport.content.ts).thrown
    /\ Response.t = "object"

Present(k) == k \in DOMAIN Response.o
Returned == aOutcome.value

IsStringArray(v) == v.t = "array" /\ \A i \in 1..Len(v.a) : v.a[i].t = "string"
IsNumber(v) == v.t \in {"number", "NaN"}
InRange(v) == v.t = "number" /\ -10 <= v.n /\ v.n <= 10

\* v.length of what slice returned
LengthOf(v) == IF v.t = "array" THEN Len(v.a) ELSE Len(StringChars[v.s])

FirstN(seq, n) == [i \in 1..(IF Len(seq) < n THEN Len(seq) ELSE n) |-> seq[i]]

\* C1: analyzeEmotion never raises: whatever the transport does (reject, no
\* choices, empty or null content, text that is not JSON, JSON of any
\* shape), the promise it returned is fulfilled, not rejected.
C1_NeverRaises == AnalyzeDone => aOutcome.state = "fulfilled"

C1_Witness ==
    /\ AnalyzeDone
    /\ aTransport = Rejects
    /\ aOutcome.state = "fulfilled"

\* C2: for every text and transport response the returned sentiment lies in
\* [-1, 1], and at most 3 emotions and at most 5 tags are returned.
C2_WithinBounds ==
    AnalyzeDone /\ aOutcome.state = "fulfilled" =>
        /\ InRange(Returned.sentiment)
        /\ LengthOf(Returned.emotions) <= 3
        /\ LengthOf(Returned.tags) <= 5

\* The structure the specification fixes for failures.
FailureStructure ==
    [mood |-> Str("neutral"),
     sentiment |-> Num(0),
     emotions |-> Arr(<<Str("reflective")>>),
     tags |-> Arr(<<Str("personal")>>),
     summary |-> Str("Unable to analyze emotions at this time")]

TransportFailed == AnalyzeDone /\ aTransport.kind = "reject"
EmptyContent ==
    /\ AnalyzeDone
    /\ aTransport.kind = "message"
    /\ aTransport.content \in {Null, Undefined, Text(<<>>)}
NotJSON == AnsweredText /\ aTransport.content.ts \in NotJSONTexts

\* C3: when the completion call fails, returns empty content or returns text
\* that is not JSON, analyzeEmotion returns exactly the failure structure.
C3_FallbackOnFailure ==
    TransportFailed \/ EmptyContent \/ NotJSON =>
        aOutcome.state = "fulfilled" /\ Returned = FailureStructure

C3_Witness ==
    /\ NotJSON
    /\ aTransport.content.ts # <<TWord("I"), TWord("feel"), TWord("fine")>>
    /\ Len(aTransport.content.ts) > Len(JSONStringify(ParkDay))
    /\ Returned = FailureStructure

\* C4: the returned value is fully populated and well typed, whatever the
\* types of the fields of the response.
C4_WellTyped ==
    AnalyzeDone /\ aOutcome.state = "fulfilled" =>
        /\ DOMAIN Returned = Fields
        /\ Returned.mood.t = "string"
        /\ IsNumber(Returned.sentiment)
        /\ IsStringArray(Returned.emotions)
        /\ IsStringArray(Returned.tags)
        /\ Returned.summary.t = "string"

\* The default of each field.
DefaultOf ==
    [mood |-> Str("neutral"),
     sentiment |-> Num(0),
     emotions |-> Arr(<<>>),
     tags |-> Arr(<<>>),
     summary |-> Str("Entry analyzed successfully")]

Clamped(n) == IF n > 10 THEN 10 ELSE IF n < -10 THEN -10 ELSE n

\* A present field is kept: a string mood or summary as it is, a numeric
\* sentiment clamped, an emotions or tags array cut to its first elements.
\* Nothing is asked of a field of another type.
Kept(k) ==
    LET v == Response.o[k]
    IN  CASE k \in {"mood", "summary"} -> v.t = "string" => Returned[k] = v
          [] k = "sentiment" -> v.t = "number" => Returned[k] = Num(Clamped(v.n))
          [] k = "emotions" -> v.t = "array" => Returned[k] = Arr(FirstN(v.a, 3))
          [] k = "tags" -> v.t = "array" => Returned[k] = Arr(FirstN(v.a, 5))

OmitsFields == AnsweredObject /\ \E k \in Fields : ~Present(k)

\* C5 as claimed: for a JSON object that omits some of the five fields the
\* failure path is not taken, each missing field has its default and each
\* present field is kept.
C5_DefaultsForMissing ==
    OmitsFields =>
        /\ ~aOutcome.logged
        /\ \A k \in Fields : ~Present(k) => Returned[k] = DefaultOf[k]
        /\ \A k \in Fields : Present(k) => Kept(k)

\* Falsy values: what || replaces by the default.
Falsy(v) == v \in {Null, Bool(FALSE), Num(0), Str("")}

\* slice fails on a present emotions or tags that is truthy and neither an
\* array nor a string.
UnsliceableList ==
    \E k \in {"emotions", "tags"} :
        /\ Present(k)
        /\ ~Falsy(Response.o[k])
        /\ Response.o[k].t \notin {"array", "string"}

\* C5, amended: for a JSON object that omits some of the five fields, each
\* missing field and each present falsy field has its default and every
\* other present field is kept; the failure path is taken, and the failure
\* structure returned, only when a present emotions or tags is truthy and
\* neither an array nor a string.
C5_DefaultsForMissingOrFalsy ==
    OmitsFields =>
        IF UnsliceableList
        THEN aOutcome.logged /\ Returned = FailureStructure
        ELSE /\ ~aOutcome.logged
             /\ \A k \in Fields :
                    IF ~Present(k) \/ Falsy(Response.o[k])
                    THEN Returned[k] = DefaultOf[k]
                    ELSE Kept(k)

C5_Witness ==
    /\ OmitsFields
    /\ Response = MakeObject(Str("happy"), Num(8), StringList(3), Undefined, Str("s"))
    /\ ~aOutcome.logged
    /\ Returned.tags = Arr(<<>>)
    /\ Returned.mood = Str("happy")

\* The transport answered with JSON other than null.
AnsweredJSON ==
    /\ AnsweredText
    /\ ~JSONParse(aTransport.content.ts).thrown
    /\ Response # Null

Field(k) == Get(Response, k).value

\* What C6 says of the returned sentiment, emotions and tags.
ClampsAndTruncates ==
    /\ Field("sentiment").t = "number" /\ Field("sentiment").n > 10
            => Returned.sentiment = Num(10)
    /\ Field("sentiment").t = "number" /\ Field("sentiment").n < -10
            => Returned.sentiment = Num(-10)
    /\ Field("emotions").t = "array"
            => Returned.emotions = Arr(FirstN(Field("emotions").a, 3))
    /\ Field("tags").t = "array"
            => Returned.tags = Arr(FirstN(Field("tags").a, 5))

\* C6 as claimed: for a parsed response, a sentiment above 1 is returned as
\* 1 and one below -1 as -1, emotions are the first 3 and tags the first 5
\* elements of the response's, in order.
C6_ClampAndTruncate == AnsweredJSON => ClampsAndTruncates

Sliceable(v) == v.t \in {"array", "string"} \/ v = Undefined \/ Falsy(v)

\* C6, amended: the same, for a parsed response whose emotions and tags are
\* each absent, falsy, a string or an array (so that slice does not fail).
C6_ClampAndTruncateSliceable ==
    AnsweredJSON /\ Sliceable(Field("emotions")) /\ Sliceable(Field("tags"))
        => ClampsAndTruncates

C6_Witness ==
    /\ AnsweredJSON
    /\ Response = MakeObject(Str("happy"), Num(25), StringList(4), StringList(6), Str("s"))
    /\ Returned.sentiment = Num(10)
    /\ Returned.emotions = StringList(3)
    /\ Returned.tags = StringList(5)

\* All five fields present and of their types, sentiment in [-1, 1], at most
\* 3 emotions and at most 5 tags.
InBounds ==
    /\ AnsweredObject
    /\ \A k \in Fields : Present(k)
    /\ Response.o.mood.t = "string" /\ Response.o.summary.t = "string"
    /\ InRange(Response.o.sentiment)
    /\ Response.o.emotions.t = "array" /\ Len(Response.o.emotions.a) <= 3
    /\ Response.o.tags.t = "array" /\ Len(Response.o.tags.a) <= 5

Unmodified == ~aOutcome.logged /\ \A k \in Fields : Returned[k] = Response.o[k]

\* C7 as claimed: a response within all bounds is returned unmodified.
C7_IdentityInBounds == InBounds => Unmodified

\* C7, amended: a response within all bounds whose mood and summary are not
\* empty strings is returned unmodified.
C7_IdentityInBoundsNonEmpty ==
    InBounds /\ Response.o.mood # Str("") /\ Response.o.summary # Str("") => Unmodified

C7_Witness ==
    /\ InBounds
    /\ Response = ParkDay
    /\ Returned = ParkDay.o

-----------------------------------------------------------------------------
(* chatWithAI and streamChatResponse *)

\* Most chunks a stream delivers.
MaxChunks == 3

ChatMsg(role, content, timestamp) ==
    [role |-> role, content |-> content, timestamp |-> timestamp]

\* The conversations handed to the chat operations.
Histories ==
    {<<>>,
     <<ChatMsg("user", "hi", 1)>>,
     <<ChatMsg("user", "hi", 1), ChatMsg("user", "hi", 2)>>,
     <<ChatMsg("user", "hi", 1), ChatMsg("assistant", "hello", 2),
       ChatMsg("user", "I feel sad", 3)>>}

\* The diaryContext arguments: none, empty, a context.
Contexts == {Undefined, Str(""), Str("Recent diary entries: Date: 2024-01-01")}

\* The system prompt of an operation: the pieces of its template, with the
\* context block when diaryContext is truthy.
SystemPrompt(op, ctx) ==
    IF op = "chat"
    THEN <<"You are Luna, a compassionate AI companion">>
         \o (IF Truthy(ctx)
             THEN <<"Recent diary context:", ctx.s,
                    "Use this context to provide personalized, empathetic responses.">>
             ELSE <<>>)
         \o <<"Guidelines">>
    ELSE <<"You are Luna, a compassionate AI companion specializing in emotional support">>
         \o (IF Truthy(ctx) THEN <<"Recent diary context: ", ctx.s>> ELSE <<>>)
         \o <<"Be warm, empathetic">>

\* A faulty chatMessages that forwards the newest message first.
ChatMessagesNewestFirst(op, messages, ctx) ==
    <<[role |-> "system", content |-> SystemPrompt(op, ctx)]>>
        \o [i \in 1..Len(messages) |->
                [role |-> messages[Len(messages) + 1 - i].role,
                 content |-> <<messages[Len(messages) + 1 - i].content>>]]

\* chatMessages: the system message, then role and content of each message.
ChatMessages(op, messages, ctx) ==
    <<[role |-> "system", content |-> SystemPrompt(op, ctx)]>>
        \o [i \in 1..Len(messages) |->
                [role |-> messages[i].role, content |-> <<messages[i].content>>]]

\* The contents of a chat completion.
ChatTransports ==
    {Rejects, NoChoices}
        \cup {Message(c) : c \in {Str("Hello, how are you?"), Str(" "), Str(""),
                                  Null, Undefined}}

\* The try block of chatWithAI from the await on.
ChatTry(tr) ==
    IF tr.kind = "reject" THEN Throw
    ELSE IF tr.kind = "nochoices" THEN Throw
    ELSE Normal(Or(tr.content,
                   Str("I understand, but I'm having trouble responding right now. Please try again.")))

\* A faulty chatWithAI without the catch block: the exception rejects it.
chatWithAINoCatch(tr) ==
    LET c == ChatTry(tr)
    IN  IF c.thrown THEN Rejected ELSE Fulfilled(c.value, FALSE)

\* chatWithAI when the transport does tr.
chatWithAI(tr) ==
    LET c == ChatTry(tr)
    IN  IF c.thrown
        THEN Fulfilled(Str("I apologize, but I'm having difficulty connecting right now. Please try again in a moment."), TRUE)
        ELSE Fulfilled(c.value, FALSE)

\* A chunk of the stream whose choices[0].delta.content is c.
Chunk(c) == Obj("choices" :> Arr(<<Obj("delta" :> Obj("content" :> c))>>))

\* Chunks that carry text, chunks that carry none (empty or null content,
\* no delta, no choice), and chunks without choices.
TextChunks == {Chunk(Str(s)) : s \in {"Hel", "lo", " "}}
EmptyChunks ==
    {Chunk(Str("")), Chunk(Null), Obj("choices" :> Arr(<<EmptyObject>>)),
     Obj("choices" :> Arr(<<>>))}
MalformedChunks == {EmptyObject}
Chunks == TextChunks \cup EmptyChunks \cup MalformedChunks

\* v[i]: a TypeError on null and undefined, the element of an array.
Index(v, i) ==
    IF v.t \in {"null", "undefined"} THEN Throw
    ELSE IF v.t = "array" /\ i < Len(v.a) THEN Normal(v.a[i + 1])
    ELSE Normal(Undefined)

\* v?.key
OptGet(v, key) == IF v.t \in {"null", "undefined"} THEN Undefined ELSE Get(v, key).value

\* chunk.choices[0]?.delta?.content || ''
ChunkContent(chunk) ==
    IF Get(chunk, "choices").thrown THEN Throw
    ELSE LET first == Index(Get(chunk, "choices").value, 0)
         IN  IF first.thrown THEN Throw
             ELSE Normal(Or(OptGet(OptGet(first.value, "delta"), "content"), Str("")))

FallbackFragment == Str("I apologize, but I'm having difficulty connecting right now.")

\* A faulty generator without the catch block: the exception leaves it.
StreamNoCatch(yielded) == [pc |-> "threw", yielded |-> yielded]

\* The catch block of streamChatResponse: it yields the fallback fragment.
StreamCatch(yielded) ==
    [pc |-> "yieldedFallback", yielded |-> Append(yielded, FallbackFragment)]

\* The body of the loop threw: for await closes the stream, it calls
\* stream.return() and awaits it; nothing is yielded until that settles.
StreamClose(yielded) == [pc |-> "awaitReturn", yielded |-> yielded]

\* A faulty loop body that keeps the content for itself and yields nothing.
StreamLoopBodyNoYield(chunk, yielded) ==
    LET c == ChunkContent(chunk)
    IN  IF c.thrown THEN StreamClose(yielded)
        ELSE [pc |-> "awaitChunk", yielded |-> yielded]

\* The body of the for await loop for one chunk: it yields the content when
\* there is one and goes on to the next chunk otherwise; when reading the
\* chunk throws, the loop closes the stream.
StreamLoopBody(chunk, yielded) ==
    LET c == ChunkContent(chunk)
    IN  IF c.thrown THEN StreamClose(yielded)
        ELSE IF Truthy(c.value)
             THEN [pc |-> "yielded", yielded |-> Append(yielded, c.value)]
             ELSE [pc |-> "awaitChunk", yielded |-> yielded]

InitChat == AnalyzeIdle /\ ChatIdle /\ TagsIdle /\ DiaryIdle /\ PagesIdle

\* chatWithAI(messages, diaryContext) is called: it builds chatMessages and
\* issues the completion request, then awaits it.
CallChat(messages, ctx) ==
    /\ cOp = "none"
    /\ cOp' = "chat"
    /\ cHistory' = messages
    /\ cContext' = ctx
    /\ cSent' = ChatMessages("chat", messages, ctx)
    /\ cRequests' = cRequests + 1
    /\ cPc' = "awaiting"
    /\ UNCHANGED <<cTransport, cOutcome, avars, svars, gvars, dvars, pvars>>

\* The awaited request settles as tr and the promise of chatWithAI settles.
ChatSettles(tr) ==
    /\ cPc = "awaiting"
    /\ cPc' = "done"
    /\ cTransport' = tr
    /\ cOutcome' = chatWithAI(tr)
    /\ UNCHANGED <<cOp, cHistory, cContext, cSent, cRequests, avars, svars, gvars, dvars, pvars>>

\* streamChatResponse(messages, diaryContext) is called: the generator is
\* created and has not run yet.
CallStream(messages, ctx) ==
    /\ cOp = "none"
    /\ cOp' = "stream"
    /\ cHistory' = messages
    /\ cContext' = ctx
    /\ sPc' = "start"
    /\ UNCHANGED <<cSent, cRequests, cPc, cTransport, cOutcome, sTaken, sEnd,
                   sYielded, avars, gvars, dvars, pvars>>

\* The consumer's first next(): the generator builds chatMessages and issues
\* the streaming request, then awaits it.
StreamStart ==
    /\ sPc = "start"
    /\ sPc' = "awaitCreate"
    /\ cSent' = ChatMessages("stream", cHistory, cContext)
    /\ cRequests' = cRequests + 1
    /\ UNCHANGED <<cOp, cHistory, cContext, cPc, cTransport, cOutcome, sTaken,
                   sEnd, sYielded, avars, gvars, dvars, pvars>>

\* The streaming request rejects: the catch block runs.
CreateRejects ==
    /\ sPc = "awaitCreate"
    /\ sEnd' = "rejected"
    /\ sPc' = StreamCatch(sYielded).pc
    /\ sYielded' = StreamCatch(sYielded).yielded
    /\ UNCHANGED <<cvars, sTaken, avars, gvars, dvars, pvars>>

\* The streaming request resolves with a stream: the loop asks for its
\* first chunk.
CreateResolves ==
    /\ sPc = "awaitCreate"
    /\ sPc' = "awaitChunk"
    /\ UNCHANGED <<cvars, sTaken, sEnd, sYielded, avars, gvars, dvars, pvars>>

\* The stream delivers a chunk: the loop body runs on it.
StreamChunk(chunk) ==
    /\ sPc = "awaitChunk"
    /\ Len(sTaken) < MaxChunks
    /\ sTaken' = Append(sTaken, chunk)
    /\ sPc' = StreamLoopBody(chunk, sYielded).pc
    /\ sYielded' = StreamLoopBody(chunk, sYielded).yielded
    /\ UNCHANGED <<cvars, sEnd, avars, gvars, dvars, pvars>>

\* The awaited stream.return() settles, resolved or rejected: the exception
\* of the loop body goes on to the catch block, which yields the fallback.
StreamReturnSettles ==
    /\ sPc = "awaitReturn"
    /\ sPc' = StreamCatch(sYielded).pc
    /\ sYielded' = StreamCatch(sYielded).yielded
    /\ UNCHANGED <<cvars, sTaken, sEnd, avars, gvars, dvars, pvars>>

\* The consumer's next() after a fragment: the loop asks for the next chunk.
StreamResume ==
    /\ sPc = "yielded"
    /\ sPc' = "awaitChunk"
    /\ UNCHANGED <<cvars, sTaken, sEnd, sYielded, avars, gvars, dvars, pvars>>

\* The stream signals its end: the loop and the generator end.
StreamEnds ==
    /\ sPc = "awaitChunk"
    /\ sEnd' = "ended"
    /\ sPc' = "done"
    /\ UNCHANGED <<cvars, sTaken, sYielded, avars, gvars, dvars, pvars>>

\* The stream fails while the loop awaits a chunk: the catch block runs.
StreamFails ==
    /\ sPc = "awaitChunk"
    /\ sEnd' = "failed"
    /\ sPc' = StreamCatch(sYielded).pc
    /\ sYielded' = StreamCatch(sYielded).yielded
    /\ UNCHANGED <<cvars, sTaken, avars, gvars, dvars, pvars>>

\* The consumer's next() after the fallback fragment: the generator ends.
StreamFinish ==
    /\ sPc = "yieldedFallback"
    /\ sPc' = "done"
    /\ UNCHANGED <<cvars, sTaken, sEnd, sYielded, avars, gvars, dvars, pvars>>

NextChat ==
    \/ \E m \in Histories, ctx \in Contexts : CallChat(m, ctx)
    \/ \E tr \in ChatTransports : ChatSettles(tr)
    \/ \E m \in Histories, ctx \in Contexts : CallStream(m, ctx)
    \/ StreamStart
    \/ CreateRejects
    \/ CreateResolves
    \/ \E chunk \in Chunks : StreamChunk(chunk)
    \/ StreamReturnSettles
    \/ StreamResume
    \/ StreamEnds
    \/ StreamFails
    \/ StreamFinish

SpecChat == InitChat /\ [][NextChat]_vars

-----------------------------------------------------------------------------
(* Properties of the chat operations *)

\* The apology of the specification.
Apology == Str("I apologize, but I'm having difficulty connecting right now.")

\* The text a chunk carries, as a sequence of at most one fragment.
Carried(chunk) ==
    IF chunk \in TextChunks THEN <<chunk.o.choices.a[1].o.delta.o.content>> ELSE <<>>

\* The fragments carried by a sequence of chunks, in order.
RECURSIVE Fragments(_)
Fragments(chunks) ==
    IF chunks = <<>> THEN <<>> ELSE Carried(Head(chunks)) \o Fragments(Tail(chunks))

\* The transport failed: the request rejected, the stream failed, or the
\* last chunk taken was malformed.
StreamFailed ==
    \/ sEnd \in {"rejected", "failed"}
    \/ sTaken # <<>> /\ sTaken[Len(sTaken)] \in MalformedChunks

\* The generator has yielded the fragments received and, after them, the
\* apology, once.
FallbackYielded ==
    /\ sPc \in {"yieldedFallback", "done"}
    /\ sYielded = Fragments(sTaken) \o <<Apology>>

\* The loop is closing the stream after a malformed chunk: the generator
\* has yielded the fragments received and nothing else.
ClosingStream == sPc = "awaitReturn" /\ sYielded = Fragments(sTaken)

\* C8: the generator never raises. When the request rejects or the stream
\* fails, it has yielded the fragments received so far and then exactly one
\* apology; when a chunk is malformed it yields nothing while the loop
\* awaits the closing of the stream, and the one step it takes from there
\* yields the apology after the fragments received. After the apology it
\* yields nothing more, and its next step ends it. When the request itself
\* failed the apology is all it yields.
C8_FallbackFragmentOnFailure ==
    /\ [](/\ sPc # "threw"
          /\ sEnd \in {"rejected", "failed"} => FallbackYielded
          /\ StreamFailed => FallbackYielded \/ ClosingStream
          /\ sPc = "awaitReturn" => StreamFailed
          /\ sEnd = "rejected" => sYielded = <<Apology>>)
    /\ [][/\ sPc = "awaitReturn" =>
                /\ sPc' = "yieldedFallback"
                /\ sYielded' = Append(sYielded, Apology)
          /\ sPc = "yieldedFallback" => sPc' = "done" /\ sYielded' = sYielded
          /\ sPc = "done" => sPc' = "done" /\ sYielded' = sYielded]_svars

\* A malformed chunk came after two fragments: the generator has ended
\* with the two fragments and the apology.
C8_Witness ==
    /\ sPc = "done"
    /\ sEnd = "open"
    /\ Len(sTaken) = 3
    /\ sTaken[3] \in MalformedChunks
    /\ Len(sYielded) = 3
    /\ sYielded[3] = Apology

\* C9: the yielded fragments are, at every moment, the texts of the chunks
\* taken so far, in the transport's order, none missing, repeated or moved
\* (so each is yielded before the next chunk is taken); no chunk is taken
\* while the generator is suspended at a yield; and when the transport
\* signals the end of the stream the generator ends.
C9_FragmentsInOrder ==
    /\ ~StreamFailed => sYielded = Fragments(sTaken)
    /\ Len(sYielded) <= Len(sTaken) + 1
    /\ sPc = "yielded" => sTaken # <<>> /\ Carried(sTaken[Len(sTaken)]) # <<>>
    /\ sEnd = "ended" => sPc = "done"

C9_Witness ==
    /\ sPc = "done"
    /\ sEnd = "ended"
    /\ sYielded = <<Str("Hel"), Str("lo")>>
    /\ Len(sTaken) = 3

\* C10: no chat operation delivers a blank response: chatWithAI returns a
\* string that is not empty and a finished streamChatResponse has yielded at
\* least one fragment that is not empty.
C10_NeverBlank ==
    /\ cPc = "done" =>
            /\ cOutcome.state = "fulfilled"
            /\ cOutcome.value.t = "string"
            /\ cOutcome.value # Str("")
    /\ sPc = "done" =>
            \E i \in 1..Len(sYielded) :
                sYielded[i].t = "string" /\ sYielded[i] # Str("")

\* The two fallback strings of chatWithAI: for an empty completion text and
\* for a failed call.
EmptyReply == Str("I understand, but I'm having trouble responding right now. Please try again.")
FailureReply == Str("I apologize, but I'm having difficulty connecting right now. Please try again in a moment.")

\* The call of chatWithAI failed: the request rejected or its response has
\* no choice to read the text from.
ChatFailed == cTransport.kind \in {"reject", "nochoices"}

\* The completion text of the response to chatWithAI.
ChatText == cTransport.content

\* C11: chatWithAI never raises: its promise fulfills, with the completion
\* text itself when that text is a non-empty string, with the fixed reply for
\* an empty response when the text is empty or missing, and with the fixed
\* reply for a failure when the call fails.
C11_ChatNeverRaises ==
    cPc = "done" =>
        /\ cOutcome.state = "fulfilled"
        /\ ChatFailed => cOutcome.value = FailureReply
        /\ ~ChatFailed /\ ChatText.t = "string" /\ ChatText # Str("")
                => cOutcome.value = ChatText
        /\ ~ChatFailed /\ ChatText \in {Str(""), Null, Undefined}
                => cOutcome.value = EmptyReply

C11_Witness ==
    /\ cPc = "done"
    /\ cTransport = Rejects
    /\ cOutcome = Fulfilled(FailureReply, TRUE)

-----------------------------------------------------------------------------
(* generateTags *)

\* The number of tags generateTags keeps: slice(0, 5).
MaxGeneratedTags == 5

\* The white space String.prototype.trim removes, among the model's characters.
WhiteSpace == {" ", "\t", "\n"}

UpperCase ==
    <<"A", "B", "C", "D", "E", "F", "G", "H", "I", "J", "K", "L", "M",
      "N", "O", "P", "Q", "R", "S", "T", "U", "V", "W", "X", "Y", "Z">>
LowerCase ==
    <<"a", "b", "c", "d", "e", "f", "g", "h", "i", "j", "k", "l", "m",
      "n", "o", "p", "q", "r", "s", "t", "u", "v", "w", "x", "y", "z">>

\* cs.split(sep) for a one-character separator: the pieces between the
\* separators, empty ones included. SplitInto reads cs from character i on;
\* the last piece of acc is the one being read.
RECURSIVE SplitInto(_, _, _, _)
SplitInto(cs, sep, i, acc) ==
    IF i > Len(cs) THEN acc
    ELSE IF cs[i] = sep THEN SplitInto(cs, sep, i + 1, Append(acc, <<>>))
    ELSE SplitInto(cs, sep, i + 1,
                   [acc EXCEPT ![Len(acc)] = Append(@, cs[i])])

Split(cs, sep) == SplitInto(cs, sep, 1, <<<<>>>>)

RECURSIVE TrimStart(_)
TrimStart(cs) ==
    IF cs # <<>> /\ Head(cs) \in WhiteSpace THEN TrimStart(Tail(cs)) ELSE cs

RECURSIVE TrimEnd(_)
TrimEnd(cs) ==
    IF cs # <<>> /\ cs[Len(cs)] \in WhiteSpace
    THEN TrimEnd(SubSeq(cs, 1, Len(cs) - 1))
    ELSE cs

\* cs.trim()
Trim(cs) == TrimEnd(TrimStart(cs))

\* cs.toLowerCase()
ToLowerCase(cs) ==
    [i \in 1..Len(cs) |->
        IF \E k \in 1..Len(UpperCase) : UpperCase[k] = cs[i]
        THEN LowerCase[CHOOSE k \in 1..Len(UpperCase) : UpperCase[k] = cs[i]]
        ELSE cs[i]]

\* A faulty chain without the filter: empty tags stay.
TagsOfUnfiltered(result) ==
    LET pieces == Split(result.cs, ",")
        mapped == [i \in 1..Len(pieces) |-> ToLowerCase(Trim(pieces[i]))]
    IN  Slice(Arr([i \in 1..Len(mapped) |-> Chars(mapped[i])]),
              MaxGeneratedTags).value

\* result.split(',').map(tag => tag.trim().toLowerCase())
\*       .filter(tag => tag.length > 0).slice(0, 5)
TagsOf(result) ==
    LET pieces == Split(result.cs, ",")
        mapped == [i \in 1..Len(pieces) |-> ToLowerCase(Trim(pieces[i]))]
        filtered == SelectSeq(mapped, LAMBDA tag : Len(tag) > 0)
    IN  Slice(Arr([i \in 1..Len(filtered) |-> Chars(filtered[i])]),
              MaxGeneratedTags).value

\* The try block of generateTags from the await on. A content that is not a
\* string has no split method.
GenerateTagsTry(tr) ==
    IF tr.kind = "reject" THEN Throw
    ELSE IF tr.kind = "nochoices" THEN Throw
    ELSE IF ~Truthy(tr.content) THEN Normal(Arr(<<>>))
    ELSE IF tr.content.t # "chars" THEN Throw
    ELSE Normal(TagsOf(tr.content))

\* A faulty generateTags: no catch block, an exception rejects the promise.
generateTagsNoCatch(content, tr) ==
    LET c == GenerateTagsTry(tr)
    IN  IF c.thrown THEN Rejected ELSE Fulfilled(c.value, FALSE)

\* generateTags(content) when the transport does tr: the catch block logs
\* and returns no tags.
generateTags(content, tr) ==
    LET c == GenerateTagsTry(tr)
    IN  IF c.thrown THEN Fulfilled(Arr(<<>>), TRUE)
        ELSE Fulfilled(c.value, FALSE)

\* Most comma-separated pieces in a completion text.
MaxPieces == 6

\* The pieces the transport writes between commas: nothing, white space,
\* words with white space around them, in capitals, with a space inside.
RawPieces ==
    {<<>>,
     <<" ">>,
     <<" ", "J", "o", "y", "\n">>,
     <<"w", "o", "r", "k">>,
     <<"M", "y", " ", "D", "a", "y", " ">>}

RECURSIVE JoinPieces(_)
JoinPieces(ps) ==
    IF Len(ps) = 1 THEN ps[1]
    ELSE ps[1] \o <<",">> \o JoinPieces(Tail(ps))

\* The completion texts: up to MaxPieces pieces separated by commas.
PieceLists == UNION {[1..n -> RawPieces] : n \in 1..MaxPieces}

\* What the transport does with the request of generateTags when it does
\* not answer with a text.
TextlessTransports ==
    {Rejects, NoChoices, Message(Null), Message(Undefined), Message(Num(50))}

\* generateTags(content) is called: it issues the completion request and
\* awaits it.
CallTags(content) ==
    /\ gPc = "idle"
    /\ gPc' = "awaiting"
    /\ gContent' = content
    /\ gRequests' = gRequests + 1
    /\ UNCHANGED <<gTransport, gOutcome, avars, cvars, svars, dvars, pvars>>

\* A faulty generateTags that issues the request again when it fails.
TagsSettleRetrying(tr) ==
    /\ gPc = "awaiting"
    /\ gTransport' = tr
    /\ IF GenerateTagsTry(tr).thrown /\ gRequests < 2
       THEN /\ gPc' = "awaiting"
            /\ gRequests' = gRequests + 1
            /\ UNCHANGED gOutcome
       ELSE /\ gPc' = "done"
            /\ gOutcome' = generateTags(gContent, tr)
            /\ UNCHANGED gRequests
    /\ UNCHANGED <<gContent, avars, cvars, svars, dvars, pvars>>

\* The awaited request settles as tr; the rest of generateTags runs and its
\* promise settles.
TagsSettle(tr) ==
    /\ gPc = "awaiting"
    /\ gPc' = "done"
    /\ gTransport' = tr
    /\ gOutcome' = generateTags(gContent, tr)
    /\ UNCHANGED <<gContent, gRequests, avars, cvars, svars, dvars, pvars>>

InitTags == AnalyzeIdle /\ ChatIdle /\ TagsIdle /\ DiaryIdle /\ PagesIdle

NextTags ==
    \/ \E content \in DiaryTexts : CallTags(content)
    \/ \E tr \in TextlessTransports : TagsSettle(tr)
    \/ /\ gPc = "awaiting"
       /\ \E ps \in PieceLists : TagsSettle(Message(Chars(JoinPieces(ps))))

SpecTags == InitTags /\ [][NextTags]_vars

-----------------------------------------------------------------------------
(* Properties of generateTags *)

\* The call of generateTags failed: the request rejected, its response has
\* no choice, or its content is not a string.
TagsFailed ==
    \/ gTransport.kind \in {"reject", "nochoices"}
    \/ gTransport.kind = "message" /\ gTransport.content.t = "number"

\* The response to generateTags has an empty content: "", null or undefined.
TagsEmpty ==
    /\ gTransport.kind = "message"
    /\ gTransport.content \in {Chars(<<>>), Null, Undefined}

\* C13: generateTags never raises: its promise fulfills; and it fulfills
\* with the empty sequence whenever the request fails or the response has an
\* empty content.
C13_TagsNeverRaise ==
    gPc = "done" =>
        /\ gOutcome.state = "fulfilled"
        /\ gOutcome.value.t = "array"
        /\ TagsFailed \/ TagsEmpty => gOutcome.value = Arr(<<>>)

C13_Witness ==
    /\ gPc = "done"
    /\ gTransport = Rejects
    /\ gOutcome = Fulfilled(Arr(<<>>), TRUE)

\* The response to generateTags has a non-empty completion text.
TagsAnswered ==
    /\ gPc = "done"
    /\ gTransport.kind = "message"
    /\ gTransport.content.t = "chars"
    /\ gTransport.content.cs # <<>>

\* The positions of the commas of a text.
CommasOf(cs) == {i \in 1..Len(cs) : cs[i] = ","}

\* The k-th smallest number of a set.
Smallest(S, k) == CHOOSE x \in S : Cardinality({y \in S : y < x}) = k - 1

\* The k-th comma-separated piece of a text: what stands between the comma
\* before it (or the start) and the comma after it (or the end).
PieceOf(cs, k) ==
    SubSeq(cs,
           Smallest({0} \cup CommasOf(cs), k) + 1,
           Smallest(CommasOf(cs) \cup {Len(cs) + 1}, k) - 1)

\* A piece without its surrounding white space.
Stripped(p) ==
    LET inked == {i \in 1..Len(p) : p[i] \notin WhiteSpace}
    IN  IF inked = {} THEN <<>>
        ELSE SubSeq(p, CHOOSE i \in inked : \A j \in inked : i <= j,
                       CHOOSE i \in inked : \A j \in inked : i >= j)

Capitals == {UpperCase[k] : k \in 1..Len(UpperCase)}

\* A piece with each capital replaced by its small letter.
Lowered(p) ==
    [i \in 1..Len(p) |->
        IF p[i] \in Capitals
        THEN LowerCase[CHOOSE k \in 1..Len(UpperCase) : UpperCase[k] = p[i]]
        ELSE p[i]]

\* The tags a text stands for: its pieces, stripped and lowered, in their
\* order, without the empty ones.
TagsIn(cs) ==
    SelectSeq([k \in 1..(Cardinality(CommasOf(cs)) + 1) |->
                    Lowered(Stripped(PieceOf(cs, k)))],
              LAMBDA p : p # <<>>)

\* The tags returned by generateTags, as character sequences.
ReturnedTags == [i \in 1..Len(gOutcome.value.a) |-> gOutcome.value.a[i].cs]

\* C14: for a non-empty completion text generateTags returns the first 5,
\* in their order, of the text's comma-separated pieces after trimming and
\* lower-casing each and dropping the empty ones; so every returned tag is
\* non-empty, has no white space at either end and no capital letter, and
\* there are at most 5 tags.
C14_TagsNormalised ==
    TagsAnswered =>
        /\ gOutcome.state = "fulfilled"
        /\ ReturnedTags = FirstN(TagsIn(gTransport.content.cs), 5)
        /\ Len(ReturnedTags) <= 5
        /\ \A i \in 1..Len(ReturnedTags) :
                LET tag == ReturnedTags[i]
                IN  /\ tag # <<>>
                    /\ tag[1] \notin WhiteSpace
                    /\ tag[Len(tag)] \notin WhiteSpace
                    /\ \A j \in 1..Len(tag) : tag[j] \notin Capitals

\* Six pieces that all stand for a tag: the sixth is not returned.
C14_Witness ==
    /\ TagsAnswered
    /\ Len(TagsIn(gTransport.content.cs)) = 6
    /\ Len(ReturnedTags) = 5
    /\ ReturnedTags[1] = <<"j", "o", "y">>
    /\ ReturnedTags[2] = <<"m", "y", " ", "d", "a", "y">>

-----------------------------------------------------------------------------
(* One call of any operation of the service *)

InitService == AnalyzeIdle /\ ChatIdle /\ TagsIdle /\ DiaryIdle /\ PagesIdle

\* One of the four operations is called, once, and runs to its end.
NextService ==
    \/ cOp = "none" /\ gPc = "idle" /\ NextAnalyze
    \/ aPc = "idle" /\ gPc = "idle" /\ NextChat
    \/ aPc = "idle" /\ cOp = "none" /\ NextTags

SpecService == InitService /\ [][NextService]_vars

\* The stream of a finished streamChatResponse ended without any text.
StreamEmpty == sPc = "done" /\ sEnd = "ended" /\ Fragments(sTaken) = <<>>

\* C12: each operation delivers one and the same fallback for a failed
\* transport, an empty response and a malformed one: analyzeEmotion the
\* fallback analysis, generateTags no tags, chatWithAI its reply for a
\* failure, streamChatResponse the apology after the fragments received.
C12_SameFallback ==
    /\ aPc = "done" /\ (TransportFailed \/ EmptyContent \/ NotJSON)
            => aOutcome = Fulfilled(FallbackAnalysis, TRUE)
    /\ gPc = "done" /\ (TagsFailed \/ TagsEmpty)
            => gOutcome.state = "fulfilled" /\ gOutcome.value = Arr(<<>>)
    /\ cPc = "done" /\ (ChatFailed \/ ChatText \in {Str(""), Null, Undefined})
            => cOutcome.state = "fulfilled" /\ cOutcome.value = FailureReply
    /\ sPc = "done" /\ (StreamFailed \/ StreamEmpty)
            => sYielded = Fragments(sTaken) \o <<Apology>>

\* C15: the messages chatWithAI and streamChatResponse submit are a system
\* message followed by the caller's messages, as many and in the same order,
\* each with its role and its content and nothing else.
C15_MessagesForwarded ==
    cRequests > 0 =>
        /\ Len(cSent) = Len(cHistory) + 1
        /\ cSent[1].role = "system"
        /\ DOMAIN cSent[1] = {"role", "content"}
        /\ \A i \in 1..Len(cHistory) :
                cSent[i + 1] = [role |-> cHistory[i].role,
                                content |-> <<cHistory[i].content>>]

C15_Witness ==
    /\ cOp = "stream"
    /\ sPc = "awaitCreate"
    /\ Len(cHistory) = 3
    /\ cSent[2] = [role |-> "user", content |-> <<"hi">>]
    /\ cSent[3] = [role |-> "assistant", content |-> <<"hello">>]
    /\ cSent[4] = [role |-> "user", content |-> <<"I feel sad">>]

\* C16: a call of analyzeEmotion, generateTags or chatWithAI has issued
\* exactly one completion request from its await on, however the request
\* settles, and a streamChatResponse generator exactly one from its first
\* step on; no call ever issues a second one.
C16_OneRequest ==
    /\ aPc \in {"awaiting", "done"} => aRequests = 1
    /\ gPc \in {"awaiting", "done"} => gRequests = 1
    /\ cPc \in {"awaiting", "done"} => cRequests = 1
    /\ sPc \notin {"idle", "start"} => cRequests = 1
    /\ aRequests <= 1 /\ gRequests <= 1 /\ cRequests <= 1

C16_Witness ==
    /\ gPc = "done"
    /\ gTransport = Rejects
    /\ gRequests = 1

-----------------------------------------------------------------------------
(* The diary store *)

\* Most addEntry calls, and most calls of store operations made by the user.
MaxAdds == 2
MaxCalls == 2

\* The length above which addEntry analyzes the new entry.
AutoAnalyzeMinLength == 50

\* { ...a, ...b }
Spread(a, b) ==
    [k \in DOMAIN a \cup DOMAIN b |-> IF k \in DOMAIN b THEN b[k] ELSE a[k]]

\* e[k], undefined when e has no property k.
Prop(e, k) == IF k \in DOMAIN e THEN e[k] ELSE Undefined

\* content.trim().split(/\s+/).length: the words of a text, 1 for a blank one.
WordCount(cs) ==
    LET t == Trim(cs)
    IN  1 + Cardinality({i \in 2..Len(t) :
                            t[i] \notin WhiteSpace /\ t[i - 1] \in WhiteSpace})

\* A text of n letters.
Letters(n) == [i \in 1..n |-> "a"]

\* The texts of the diary: 51 letters, and 50 letters with a space after them.
DiaryContents == {Letters(51), Letters(50) \o <<" ">>}

\* The entryData arguments of addEntry.
EntryData ==
    {[title |-> "Morning", content |-> c, date |-> "2024-01-01",
      imageUrl |-> Undefined, wordCount |-> WordCount(c)] : c \in DiaryContents}

\* The updates arguments of updateEntry.
EntryUpdates == {[title |-> "Evening", imageUrl |-> Str("photo.png")]}

\* What the completion transport does for the store's analyzeEmotion calls.
DiaryTransports == {Rejects, Message(Text(JSONStringify(ParkDay)))}

\* The first position of es that holds the entry with that _id, 0 for none.
IndexOfId(es, id) ==
    IF \E i \in 1..Len(es) : es[i]["_id"] = id
    THEN CHOOSE i \in 1..Len(es) :
            es[i]["_id"] = id /\ \A j \in 1..(i - 1) : es[j]["_id"] # id
    ELSE 0

\* The first position of es that holds an entry with that content, 0 for none.
IndexOfContent(es, content) ==
    IF \E i \in 1..Len(es) : es[i]["content"] = content
    THEN CHOOSE i \in 1..Len(es) :
            es[i]["content"] = content
                /\ \A j \in 1..(i - 1) : es[j]["content"] # content
    ELSE 0

\* entries.map(e => e._id === entryId ? updatedEntry : e)
MapReplace(es, id, updatedEntry) ==
    [i \in 1..Len(es) |-> IF es[i]["_id"] = id THEN updatedEntry ELSE es[i]]

\* entries.filter(e => e._id !== entryId)
FilterOut(es, id) == SelectSeq(es, LAMBDA e : e["_id"] # id)

\* The items of the table, sorted by _id, descending.
RECURSIVE ItemsDesc(_)
ItemsDesc(t) ==
    IF DOMAIN t = {} THEN <<>>
    ELSE LET top == CHOOSE i \in DOMAIN t : \A j \in DOMAIN t : j <= i
         IN  <<t[top]>> \o ItemsDesc([i \in DOMAIN t \ {top} |-> t[i]])

\* The compare function of filteredAndSortedEntries; the one of HomePage and
\* of getEntriesByDateRange is that of 'newest'.
Compare(by, a, b) ==
    CASE by = "oldest" -> a.createdAt - b.createdAt
      [] by = "mood" -> Or(Prop(b, "sentiment"), Num(0)).n
                            - Or(Prop(a, "sentiment"), Num(0)).n
      [] OTHER -> b.createdAt - a.createdAt

\* Array.prototype.sort with that compare function: stable.
RECURSIVE Sort(_, _)
Sort(es, by) ==
    IF es = <<>> THEN <<>>
    ELSE LET last == es[Len(es)]
             sorted == Sort(SubSeq(es, 1, Len(es) - 1), by)
             k == Cardinality({i \in 1..Len(sorted) :
                                  Compare(by, sorted[i], last) <= 0})
         IN  SubSeq(sorted, 1, k) \o <<last>> \o SubSeq(sorted, k + 1, Len(sorted))

\* The characters of the titles.
TitleChars ==
    ("Morning" :> <<"M", "o", "r", "n", "i", "n", "g">>) @@
    ("Evening" :> <<"E", "v", "e", "n", "i", "n", "g">>)

\* The searchTerm arguments of searchEntries.
SearchPrefixes == {<<"M", "o", "r">>, <<"e">>}

\* BEGINS_WITH: the characters cs begin with pre.
BeginsWith(cs, pre) == Len(pre) <= Len(cs) /\ SubSeq(cs, 1, Len(pre)) = pre

\* The dates of the model, in the order of their strings.
DateRank == ("2023-12-31" :> 1) @@ ("2024-01-01" :> 2) @@ ("2024-12-31" :> 3)

\* The startDate and endDate arguments of getEntriesByDateRange.
DateRanges == {<<"2024-01-01", "2024-12-31">>, <<"2023-12-31", "2023-12-31">>}

\* entries.filter(entry => entry.date >= startDate && entry.date <= endDate)
InDateRange(es, startDate, endDate) ==
    SelectSeq(es, LAMBDA entry : /\ DateRank[entry.date] >= DateRank[startDate]
                                 /\ DateRank[entry.date] <= DateRank[endDate])

\* The table after updateItem(item): the item with its _id is replaced, and
\* written when there is none.
Put(t, item) ==
    [i \in DOMAIN t \cup {item["_id"]} |-> IF i = item["_id"] THEN item ELSE t[i]]

\* A call of an operation of the store: its name, where it stands, its
\* entryId (for addEntry the _id the backend gave its item, once stored),
\* its entryData or updates, the entries it read (const { entries } =
\* get()), the entry it found or built, the addEntry call that made it
\* or the call whose handler made it (0 for the user), whether its table
\* write was done, how its promise
\* settled, the entries it returned (searchEntries, getEntriesByDateRange).
\* A call that has returned holds no locals.
NoEntry == <<>>

Call(op, pc, id, data, snap, item, by) ==
    [op |-> op, pc |-> pc, id |-> id,
     data |-> IF pc = "done" THEN <<>> ELSE data,
     snap |-> IF pc = "done" THEN <<>> ELSE snap,
     item |-> IF pc = "done" THEN NoEntry ELSE item,
     by |-> by, wrote |-> FALSE,
     settled |-> IF pc = "done" THEN "resolved" ELSE "pending",
     returned |-> <<>>]

\* The message a failed operation stores in error.
FailureMessage(op) ==
    CASE op = "addEntry" -> Str("Failed to save diary entry")
      [] op = "updateEntry" -> Str("Failed to update diary entry")
      [] op = "deleteEntry" -> Str("Failed to delete diary entry")
      [] op = "loadEntries" -> Str("Failed to load diary entries")
      [] op = "analyzeEntry" -> Str("Failed to analyze entry emotions")
      [] op = "reanalyzeEntry" -> Str("Failed to reanalyze entry emotions")

\* entry.mood && entry.sentiment !== undefined
AlreadyAnalyzed(entry) ==
    Truthy(Prop(entry, "mood")) /\ Prop(entry, "sentiment") # Undefined

\* A faulty analyzeEntry without the check for an entry already analyzed.
AnalysisStartNoSkip(op, id, es, by) ==
    LET i == IndexOfId(es, id)
    IN  IF i = 0
        THEN [call |-> Call(op, "done", id, <<>>, es, NoEntry, by),
              isAnalyzing |-> FALSE, error |-> FailureMessage(op)]
        ELSE [call |-> Call(op, "awaitAnalyzeEmotion", id, <<>>, es, es[i], by),
              isAnalyzing |-> TRUE, error |-> Null]

\* analyzeEntry(id) and reanalyzeEntry(id) up to the await of analyzeEmotion,
\* when the store's entries are es: the call, and what it leaves in
\* isAnalyzing and error. An unknown id throws, which the catch block stores;
\* analyzeEntry returns at once for an entry already analyzed.
AnalysisStart(op, id, es, by) ==
    LET i == IndexOfId(es, id)
    IN  IF i = 0
        THEN [call |-> Call(op, "done", id, <<>>, es, NoEntry, by),
              isAnalyzing |-> FALSE, error |-> FailureMessage(op)]
        ELSE IF op = "analyzeEntry" /\ AlreadyAnalyzed(es[i])
        THEN [call |-> Call(op, "done", id, <<>>, es, es[i], by),
              isAnalyzing |-> FALSE, error |-> Null]
        ELSE [call |-> Call(op, "awaitAnalyzeEmotion", id, <<>>, es, es[i], by),
              isAnalyzing |-> TRUE, error |-> Null]

\* The updatedEntry of analyzeEntry and reanalyzeEntry.
Analyzed(entry, analysis, time) ==
    Spread(entry,
           [mood |-> analysis.mood,
            sentiment |-> analysis.sentiment,
            emotions |-> analysis.emotions,
            emotionSummary |-> analysis.summary,
            tags |-> analysis.tags,
            updatedAt |-> time])

\* A faulty threshold that takes a content of 50 characters too.
SubstantialAtLeast(content) ==
    content # <<>> /\ Len(Trim(content)) >= AutoAnalyzeMinLength

\* entryData.content && entryData.content.trim().length > 50
Substantial(content) ==
    content # <<>> /\ Len(Trim(content)) > AutoAnalyzeMinLength

\* A call that has returned: its promise is resolved and its locals are gone.
Settle(call) ==
    [call EXCEPT !.pc = "done", !.settled = "resolved",
                 !.data = <<>>, !.snap = <<>>, !.item = NoEntry]

Users == {c \in 1..Len(calls) : calls[c].by = 0}

\* addEntry(entryData) up to the await of table.addItem.
AddEntry(entryData) ==
    /\ Cardinality({c \in 1..Len(calls) : calls[c].op = "addEntry"}) < MaxAdds
    /\ Cardinality(Users) < MaxCalls
    /\ isLoading' = TRUE
    /\ error' = Null
    /\ now' = now + 1
    /\ calls' = Append(calls,
                       Call("addEntry", "awaitAddItem", 0, entryData, <<>>,
                            Spread(entryData,
                                   [createdAt |-> now, updatedAt |-> now,
                                    wordCount |-> WordCount(entryData.content)]),
                            0))
    /\ UNCHANGED <<table, nextId, entries, isAnalyzing, avars, cvars, svars, gvars, pvars>>

\* table.addItem resolves: the backend has stored the item under a new _id;
\* addEntry calls loadEntries, which awaits table.getItems.
AddItemResolves(c) ==
    /\ calls[c].op = "addEntry" /\ calls[c].pc = "awaitAddItem"
    /\ table' = Put(table, Spread(calls[c].item,
                                  [_id |-> nextId, _uid |-> "user"]))
    /\ nextId' = nextId + 1
    /\ isLoading' = TRUE
    /\ error' = Null
    /\ calls' = [calls EXCEPT ![c].pc = "awaitGetItems", ![c].wrote = TRUE,
                              ![c].id = nextId]
    /\ UNCHANGED <<entries, isAnalyzing, now, avars, cvars, svars, gvars, pvars>>

\* table.addItem rejects: the catch block stores the message and addEntry ends.
AddItemRejects(c) ==
    /\ calls[c].op = "addEntry" /\ calls[c].pc = "awaitAddItem"
    /\ error' = FailureMessage("addEntry")
    /\ isLoading' = FALSE
    /\ calls' = [calls EXCEPT ![c] = Settle(@)]
    /\ UNCHANGED <<table, nextId, entries, isAnalyzing, now, avars, cvars, svars, gvars, pvars>>

\* The table.getItems of addEntry's loadEntries resolves: the store takes
\* the items and loadEntries returns; the continuation of addEntry, which
\* awaits it, is queued.
AddReloadResolves(c) ==
    /\ calls[c].op = "addEntry" /\ calls[c].pc = "awaitGetItems"
    /\ entries' = ItemsDesc(table)
    /\ isLoading' = FALSE
    /\ calls' = [calls EXCEPT ![c].pc = "awaitLoadEntries"]
    /\ UNCHANGED <<table, nextId, isAnalyzing, error, now, avars, cvars, svars, gvars, pvars>>

\* The table.getItems of addEntry's loadEntries rejects: loadEntries stores
\* its message and returns; the continuation of addEntry is queued.
AddReloadRejects(c) ==
    /\ calls[c].op = "addEntry" /\ calls[c].pc = "awaitGetItems"
    /\ error' = FailureMessage("loadEntries")
    /\ isLoading' = FALSE
    /\ calls' = [calls EXCEPT ![c].pc = "awaitLoadEntries"]
    /\ UNCHANGED <<table, nextId, entries, isAnalyzing, now, avars, cvars, svars, gvars, pvars>>

\* A faulty addEntry that awaits the analysis it started: it stays pending,
\* and finally has not run.
AddEntryEndsAwaiting(c) ==
    LET content == calls[c].data.content
        i == IndexOfContent(entries, content)
        start == AnalysisStart("analyzeEntry", entries[i]["_id"], entries, c)
    IN  /\ calls[c].op = "addEntry" /\ calls[c].pc = "awaitLoadEntries"
        /\ IF Substantial(content) /\ i # 0
           THEN /\ calls' = Append([calls EXCEPT ![c].pc = "awaitAnalyzeEntry"],
                                   start.call)
                /\ isAnalyzing' = start.isAnalyzing
                /\ error' = start.error
                /\ isLoading' = TRUE
           ELSE /\ calls' = [calls EXCEPT ![c] = Settle(@)]
                /\ isLoading' = FALSE
                /\ UNCHANGED <<isAnalyzing, error>>
        /\ UNCHANGED <<table, nextId, entries, now, avars, cvars, svars, gvars, pvars>>

\* addEntry goes on after its await of loadEntries, a turn after loadEntries
\* returned: it reads the store's entries, looks for an entry with the
\* content just saved and calls analyzeEntry for it without awaiting it;
\* then finally runs and addEntry ends.
AddEntryEnds(c) ==
    LET content == calls[c].data.content
        i == IndexOfContent(entries, content)
        start == AnalysisStart("analyzeEntry", entries[i]["_id"], entries, c)
    IN  /\ calls[c].op = "addEntry" /\ calls[c].pc = "awaitLoadEntries"
        /\ isLoading' = FALSE
        /\ IF Substantial(content) /\ i # 0
           THEN /\ calls' = Append([calls EXCEPT ![c] = Settle(@)], start.call)
                /\ isAnalyzing' = start.isAnalyzing
                /\ error' = start.error
           ELSE /\ calls' = [calls EXCEPT ![c] = Settle(@)]
                /\ UNCHANGED <<isAnalyzing, error>>
        /\ UNCHANGED <<table, nextId, entries, now, avars, cvars, svars, gvars, pvars>>

\* The continuation of an addEntry call is queued: it runs before the next
\* event of the user is handled, and after the continuations of the
\* responses that came with the reload's.
Queued == \E c \in 1..Len(calls) : calls[c].pc = "awaitLoadEntries"

\* loadEntries() up to the await of table.getItems.
LoadEntries ==
    /\ Cardinality(Users) < MaxCalls
    /\ isLoading' = TRUE
    /\ error' = Null
    /\ calls' = Append(calls, Call("loadEntries", "awaitGetItems", 0, <<>>,
                                   <<>>, NoEntry, 0))
    /\ UNCHANGED <<table, nextId, entries, isAnalyzing, now, avars, cvars, svars, gvars, pvars>>

LoadResolves(c) ==
    /\ calls[c].op = "loadEntries" /\ calls[c].pc = "awaitGetItems"
    /\ entries' = ItemsDesc(table)
    /\ isLoading' = FALSE
    /\ calls' = [calls EXCEPT ![c] = Settle(@)]
    /\ UNCHANGED <<table, nextId, isAnalyzing, error, now, avars, cvars, svars, gvars, pvars>>

LoadRejects(c) ==
    /\ calls[c].op = "loadEntries" /\ calls[c].pc = "awaitGetItems"
    /\ error' = FailureMessage("loadEntries")
    /\ isLoading' = FALSE
    /\ calls' = [calls EXCEPT ![c] = Settle(@)]
    /\ UNCHANGED <<table, nextId, entries, isAnalyzing, now, avars, cvars, svars, gvars, pvars>>

\* searchEntries(searchTerm) up to the await of table.getItems.
SearchEntries(term) ==
    /\ Cardinality(Users) < MaxCalls
    /\ isLoading' = TRUE
    /\ error' = Null
    /\ calls' = Append(calls, Call("searchEntries", "awaitGetItems", 0,
                                   term, <<>>, NoEntry, 0))
    /\ UNCHANGED <<table, nextId, entries, isAnalyzing, now, avars, cvars, svars, gvars, pvars>>

\* The table.getItems of searchEntries resolves with the items whose title
\* begins with the search term, newest first: searchEntries returns them.
SearchResolves(c) ==
    /\ calls[c].op = "searchEntries" /\ calls[c].pc = "awaitGetItems"
    /\ isLoading' = FALSE
    /\ calls' = [calls EXCEPT ![c] =
                    [Settle(@) EXCEPT !.returned =
                        SelectSeq(ItemsDesc(table),
                                  LAMBDA e : BeginsWith(TitleChars[e.title],
                                                        calls[c].data))]]
    /\ UNCHANGED <<table, nextId, entries, isAnalyzing, error, now, avars, cvars, svars, gvars, pvars>>

\* The table.getItems of searchEntries rejects: the catch block stores its
\* message and searchEntries returns [].
SearchRejects(c) ==
    /\ calls[c].op = "searchEntries" /\ calls[c].pc = "awaitGetItems"
    /\ error' = Str("Failed to search entries")
    /\ isLoading' = FALSE
    /\ calls' = [calls EXCEPT ![c] = Settle(@)]
    /\ UNCHANGED <<table, nextId, entries, isAnalyzing, now, avars, cvars, svars, gvars, pvars>>

\* getEntriesByDateRange(startDate, endDate): it awaits nothing; it filters
\* the store's entries, sorts the copy newest first and returns it.
GetEntriesByDateRange(startDate, endDate) ==
    /\ Cardinality(Users) < MaxCalls
    /\ isLoading' = FALSE
    /\ error' = Null
    /\ calls' = Append(calls,
                       [Call("getEntriesByDateRange", "done", 0, <<>>, <<>>,
                             NoEntry, 0)
                            EXCEPT !.returned =
                                Sort(InDateRange(entries, startDate, endDate),
                                     "newest")])
    /\ UNCHANGED <<table, nextId, entries, isAnalyzing, now, avars, cvars, svars, gvars, pvars>>

\* updateEntry(entryId, updates) up to the await of table.updateItem; an
\* unknown entryId throws, which the catch block stores.
UpdateEntry(id, updates) ==
    /\ Cardinality(Users) < MaxCalls
    /\ LET i == IndexOfId(entries, id)
       IN  IF i = 0
           THEN /\ calls' = Append(calls, Call("updateEntry", "done", id,
                                               updates, entries, NoEntry, 0))
                /\ error' = FailureMessage("updateEntry")
                /\ isLoading' = FALSE
                /\ UNCHANGED now
           ELSE /\ calls' = Append(calls,
                                   Call("updateEntry", "awaitUpdateItem", id,
                                        updates, entries,
                                        Spread(Spread(entries[i], updates),
                                               [updatedAt |-> now,
                                                wordCount |->
                                                    IF "content" \in DOMAIN updates
                                                       /\ updates.content # <<>>
                                                    THEN WordCount(updates.content)
                                                    ELSE entries[i]["wordCount"]]),
                                        0))
                /\ error' = Null
                /\ isLoading' = TRUE
                /\ now' = now + 1
    /\ UNCHANGED <<table, nextId, entries, isAnalyzing, avars, cvars, svars, gvars, pvars>>

\* deleteEntry(entryId) up to the await of table.deleteItem.
DeleteEntry(id) ==
    /\ Cardinality(Users) < MaxCalls
    /\ LET i == IndexOfId(entries, id)
       IN  IF i = 0
           THEN /\ calls' = Append(calls, Call("deleteEntry", "done", id, <<>>,
                                               entries, NoEntry, 0))
                /\ error' = FailureMessage("deleteEntry")
                /\ isLoading' = FALSE
           ELSE /\ calls' = Append(calls, Call("deleteEntry", "awaitDeleteItem",
                                               id, <<>>, entries, entries[i], 0))
                /\ error' = Null
                /\ isLoading' = TRUE
    /\ UNCHANGED <<table, nextId, entries, isAnalyzing, now, avars, cvars, svars, gvars, pvars>>

\* table.deleteItem resolves: the item is gone from the table, and the store
\* keeps the entries the call read, without the deleted one.
DeleteItemResolves(c) ==
    /\ calls[c].op = "deleteEntry" /\ calls[c].pc = "awaitDeleteItem"
    /\ table' = [i \in DOMAIN table \ {calls[c].id} |-> table[i]]
    /\ entries' = FilterOut(calls[c].snap, calls[c].id)
    /\ isLoading' = FALSE
    /\ calls' = [calls EXCEPT ![c] = [Settle(@) EXCEPT !.wrote = TRUE]]
    /\ UNCHANGED <<nextId, isAnalyzing, error, now, avars, cvars, svars, gvars, pvars>>

DeleteItemRejects(c) ==
    /\ calls[c].op = "deleteEntry" /\ calls[c].pc = "awaitDeleteItem"
    /\ error' = FailureMessage("deleteEntry")
    /\ isLoading' = FALSE
    /\ calls' = [calls EXCEPT ![c] = Settle(@)]
    /\ UNCHANGED <<table, nextId, entries, isAnalyzing, now, avars, cvars, svars, gvars, pvars>>

\* EntriesPage.handleAnalyzeEntry(entryId): reanalyzeEntry for an entry
\* with a mood, analyzeEntry for one without, nothing for an unknown entry.
HandleAnalyzeEntry(id) ==
    /\ Cardinality(Users) < MaxCalls
    /\ IndexOfId(entries, id) # 0
    /\ LET entry == entries[IndexOfId(entries, id)]
           op == IF Truthy(Prop(entry, "mood")) THEN "reanalyzeEntry"
                 ELSE "analyzeEntry"
           start == AnalysisStart(op, id, entries, 0)
       IN  /\ calls' = Append(calls, start.call)
           /\ isAnalyzing' = start.isAnalyzing
           /\ error' = start.error
    /\ UNCHANGED <<table, nextId, entries, isLoading, now, avars, cvars, svars, gvars, pvars>>

\* analyzeEmotion settles for analyzeEntry or reanalyzeEntry when the
\* transport does tr: the call builds updatedEntry and awaits table.updateItem.
AnalysisArrives(c, tr) ==
    /\ calls[c].op \in {"analyzeEntry", "reanalyzeEntry"}
    /\ calls[c].pc = "awaitAnalyzeEmotion"
    /\ LET outcome == analyzeEmotion(calls[c].item["content"], tr)
       IN  IF outcome.state = "fulfilled"
           THEN /\ calls' = [calls EXCEPT
                                ![c].pc = "awaitUpdateItem",
                                ![c].item = Analyzed(@, outcome.value, now)]
                /\ now' = now + 1
                /\ UNCHANGED <<isAnalyzing, error>>
           ELSE /\ calls' = [calls EXCEPT ![c] = Settle(@)]
                /\ error' = FailureMessage(calls[c].op)
                /\ isAnalyzing' = FALSE
                /\ UNCHANGED now
    /\ UNCHANGED <<table, nextId, entries, isLoading, avars, cvars, svars, gvars, pvars>>

\* table.updateItem resolves for updateEntry, analyzeEntry or
\* reanalyzeEntry: the table holds updatedEntry, and the store keeps the
\* entries the call read, with updatedEntry in the place of the entry.
UpdateItemResolves(c) ==
    /\ calls[c].pc = "awaitUpdateItem"
    /\ table' = Put(table, calls[c].item)
    /\ entries' = MapReplace(calls[c].snap, calls[c].id, calls[c].item)
    /\ IF calls[c].op = "updateEntry"
       THEN isLoading' = FALSE /\ UNCHANGED isAnalyzing
       ELSE isAnalyzing' = FALSE /\ UNCHANGED isLoading
    /\ calls' = [calls EXCEPT ![c] = [Settle(@) EXCEPT !.wrote = TRUE]]
    /\ UNCHANGED <<nextId, error, now, avars, cvars, svars, gvars, pvars>>

\* table.updateItem rejects: the catch block stores the message.
UpdateItemRejects(c) ==
    /\ calls[c].pc = "awaitUpdateItem"
    /\ error' = FailureMessage(calls[c].op)
    /\ IF calls[c].op = "updateEntry"
       THEN isLoading' = FALSE /\ UNCHANGED isAnalyzing
       ELSE isAnalyzing' = FALSE /\ UNCHANGED isLoading
    /\ calls' = [calls EXCEPT ![c] = Settle(@)]
    /\ UNCHANGED <<table, nextId, entries, now, avars, cvars, svars, gvars, pvars>>

InitDiary == AnalyzeIdle /\ ChatIdle /\ TagsIdle /\ DiaryIdle /\ PagesIdle

\* The operations are called by events of the user, which are handled when
\* no continuation is queued.
NextDiary ==
    \/ ~Queued /\ \E entryData \in EntryData : AddEntry(entryData)
    \/ \E c \in 1..Len(calls) : AddItemResolves(c)
    \/ \E c \in 1..Len(calls) : AddItemRejects(c)
    \/ \E c \in 1..Len(calls) : AddReloadResolves(c)
    \/ \E c \in 1..Len(calls) : AddReloadRejects(c)
    \/ \E c \in 1..Len(calls) : AddEntryEnds(c)
    \/ ~Queued /\ LoadEntries
    \/ \E c \in 1..Len(calls) : LoadResolves(c)
    \/ \E c \in 1..Len(calls) : LoadRejects(c)
    \/ ~Queued /\ \E term \in SearchPrefixes : SearchEntries(term)
    \/ \E c \in 1..Len(calls) : SearchResolves(c)
    \/ \E c \in 1..Len(calls) : SearchRejects(c)
    \/ ~Queued /\ \E range \in DateRanges : GetEntriesByDateRange(range[1], range[2])
    \/ ~Queued /\ \E id \in 1..(nextId - 1), updates \in EntryUpdates : UpdateEntry(id, updates)
    \/ ~Queued /\ \E id \in 1..(nextId - 1) : DeleteEntry(id)
    \/ \E c \in 1..Len(calls) : DeleteItemResolves(c)
    \/ \E c \in 1..Len(calls) : DeleteItemRejects(c)
    \/ ~Queued /\ \E id \in 1..(nextId - 1) : HandleAnalyzeEntry(id)
    \/ \E c \in 1..Len(calls), tr \in DiaryTransports : AnalysisArrives(c, tr)
    \/ \E c \in 1..Len(calls) : UpdateItemResolves(c)
    \/ \E c \in 1..Len(calls) : UpdateItemRejects(c)

SpecDiary == InitDiary /\ [][NextDiary]_vars

-----------------------------------------------------------------------------
(* The renders of the pages that read the diary store *)

\* toast({ title }) of the handler that awaited call c; of call 0 when no
\* call was awaited.
Toast(c, title) == [call |-> c, title |-> title]

\* The store's entries array after a render of the page. HomePage sorts the
\* array itself; EntriesPage sorts the array itself unless a filter made a
\* new one; ChatPage sorts nothing.
Rendered(p, by, term, date, es) ==
    CASE p = "home" -> Sort(es, "newest")
      [] p = "entries" -> IF term # "" \/ date # "" THEN es ELSE Sort(es, by)
      [] OTHER -> es

\* The editor of the page: not open, open for a new entry, open for an entry
\* of the list.
Closed == [open |-> FALSE, editing |-> FALSE, entry |-> NoEntry]

NewEntryEditor == [open |-> TRUE, editing |-> FALSE, entry |-> NoEntry]

EditorOf(entry) == [open |-> TRUE, editing |-> TRUE, entry |-> entry]

\* EntriesPage renders its content: it renders a placeholder, without list
\* and without editor, while isLoading is true and there is no entry.
PageShown == ~(page = "entries" /\ isLoading /\ entries = <<>>)

\* A render of the page renders DiaryEditor.
EditorMounts == editor.open /\ PageShown

\* The page has not rendered the store's state yet. A change of the store
\* queues a render; it runs before the next event of the user is handled
\* and before a handler whose call has returned goes on.
RenderPending ==
    \/ shown # error
    \/ mounted # EditorMounts
    \/ entries # Rendered(page, sortBy, searchTerm, dateFilter, entries)

\* The page renders the store's state and its effects run. The effect of
\* DiaryEditor and the effect of EntriesPage (useEffect on [error]) run when
\* the component is new or the error is not the one it rendered before: for
\* an error that is set each shows the toast 'Error' and calls clearError().
RenderPage ==
    LET changed == shown # error
        ofEditor == EditorMounts /\ (changed \/ ~mounted) /\ Truthy(error)
        ofPage == page = "entries" /\ changed /\ Truthy(error)
        effects == (IF ofEditor THEN <<Toast(0, "Error")>> ELSE <<>>)
                   \o (IF ofPage THEN <<Toast(0, "Error")>> ELSE <<>>)
    IN  /\ RenderPending
        /\ shown' = error
        /\ mounted' = EditorMounts
        /\ entries' = Rendered(page, sortBy, searchTerm, dateFilter, entries)
        /\ toasts' = toasts \o effects
        /\ error' = IF effects # <<>> THEN Null ELSE error
        /\ UNCHANGED <<table, nextId, isLoading, isAnalyzing, now, calls, resumed,
                       editor, avars, cvars, svars, gvars, uvars, evars, hvars>>

-----------------------------------------------------------------------------
(* The handlers of the pages that await the store *)

\* What the user types into the title and the content of the editor.
TypedTitles == {<<"M", "o", "r", "n", "i", "n", "g", " ">>, <<" ">>}

TypedContents == DiaryContents \cup {<<" ", " ", " ">>}

\* The string of a sequence of characters.
RECURSIVE Join(_)
Join(cs) == IF cs = <<>> THEN "" ELSE Head(cs) \o Join(Tail(cs))

\* title.trim() || 'Untitled Entry'
TitleOf(title) ==
    LET trimmed == Join(Trim(title))
    IN  IF trimmed # "" THEN trimmed ELSE "Untitled Entry"

\* a || b
OrElse(a, b) == IF Truthy(a) THEN a ELSE b

\* The editor opens and the page renders it: the effect of the new
\* DiaryEditor shows the error the store holds, if any, and clears it.
EditorOpens(ed) ==
    /\ ~editor.open
    /\ editor' = ed
    /\ mounted' = TRUE
    /\ toasts' = IF Truthy(error) THEN Append(toasts, Toast(0, "Error"))
                 ELSE toasts
    /\ error' = IF Truthy(error) THEN Null ELSE error
    /\ UNCHANGED <<table, nextId, entries, isLoading, isAnalyzing, now, calls,
                   resumed, shown, avars, cvars, svars, gvars, uvars, evars, hvars>>

\* handleNewEntry of HomePage and of EntriesPage.
HandleNewEntry == EditorOpens(NewEntryEditor)

\* EntriesPage.handleEditEntry(entry), for an entry of the list.
HandleEditEntry(entry) ==
    /\ page = "entries"
    /\ EditorOpens(EditorOf(entry))

\* The editor closes and is left as ed.
EditorCloses(ed) ==
    /\ editor' = ed
    /\ mounted' = FALSE
    /\ UNCHANGED <<dvars, toasts, resumed, shown, avars, cvars, svars, gvars,
                   uvars, evars, hvars>>

\* DiaryEditor.handleCancel: onCancel of the page, which closes the editor.
\* The Cancel button is disabled while isLoading is true.
HandleCancel ==
    /\ mounted
    /\ ~isLoading
    /\ EditorCloses(Closed)

\* onOpenChange of the dialog of EntriesPage that holds the editor: the
\* dialog is dismissed, setIsEditorOpen(false); editingEntry stays.
DismissEditor ==
    /\ mounted
    /\ page = "entries"
    /\ EditorCloses([editor EXCEPT !.open = FALSE])

\* The Save button of the editor is enabled.
SaveEnabled(content) == mounted /\ Trim(content) # <<>> /\ ~isLoading

\* DiaryEditor.handleSave up to its await, with the title and the content
\* typed: a blank content is refused with a toast; the entry of the editor
\* is updated, or a new entry is added, with the title and the content
\* trimmed. The date is the one of the entry, or the day selected.
HandleSave(title, content) ==
    IF Trim(content) = <<>>
    THEN /\ toasts' = Append(toasts, Toast(0, "Content required"))
         /\ UNCHANGED <<dvars, resumed, shown, editor, mounted, avars, cvars,
                        svars, gvars, uvars, evars, hvars>>
    ELSE IF editor.editing
    THEN UpdateEntry(editor.entry["_id"],
                     [title |-> TitleOf(title), content |-> Trim(content),
                      date |-> editor.entry["date"],
                      imageUrl |-> OrElse(OrElse(Prop(editor.entry, "imageUrl"),
                                                 Str("")),
                                          Undefined)])
    ELSE AddEntry([title |-> TitleOf(title), content |-> Trim(content),
                   date |-> "2024-01-01",
                   imageUrl |-> OrElse(Str(""), Undefined),
                   wordCount |-> WordCount(Trim(content))])

\* The handler that awaits call c can go on: the call has returned. The
\* calls of loadEntries are not awaited.
HandlerWaits(c) ==
    /\ calls[c].by = 0
    /\ calls[c].op # "loadEntries"
    /\ calls[c].settled # "pending"
    /\ c \notin resumed

\* DiaryEditor.handleSave after its await of addEntry or updateEntry: the
\* toast, then onSave, which is handleEditorSave of the page: it closes the
\* editor and calls loadEntries; nothing but a log entry when the call
\* rejected.
HandleSaveResumes(c) ==
    /\ calls[c].op \in {"addEntry", "updateEntry"}
    /\ HandlerWaits(c)
    /\ resumed' = resumed \cup {c}
    /\ IF calls[c].settled = "resolved"
       THEN /\ toasts' = Append(toasts,
                    Toast(c, IF calls[c].op = "updateEntry" THEN "Entry updated"
                             ELSE "Entry saved"))
            /\ editor' = Closed
            /\ isLoading' = TRUE
            /\ error' = Null
            /\ calls' = Append(calls, Call("loadEntries", "awaitGetItems", 0,
                                           <<>>, <<>>, NoEntry, c))
       ELSE UNCHANGED <<toasts, editor, isLoading, error, calls>>
    /\ UNCHANGED <<table, nextId, entries, isAnalyzing, now, shown, mounted, avars,
                   cvars, svars, gvars, uvars, evars, hvars>>

\* EntriesPage.handleDeleteEntry(entryId), for an entry of the list, up to
\* its await.
HandleDeleteEntry(id) ==
    /\ page = "entries"
    /\ DeleteEntry(id)

\* EntriesPage.handleDeleteEntry after its await of deleteEntry.
HandleDeleteEntryResumes(c) ==
    /\ calls[c].op = "deleteEntry"
    /\ HandlerWaits(c)
    /\ resumed' = resumed \cup {c}
    /\ toasts' = IF calls[c].settled = "resolved"
                 THEN Append(toasts, Toast(c, "Entry deleted"))
                 ELSE toasts
    /\ UNCHANGED <<dvars, shown, editor, mounted, avars, cvars, svars, gvars,
                   uvars, evars, hvars>>

\* EntriesPage.handleAnalyzeEntry after its await of reanalyzeEntry or
\* analyzeEntry; the catch block shows the failure.
HandleAnalyzeEntryResumes(c) ==
    /\ calls[c].op \in {"analyzeEntry", "reanalyzeEntry"}
    /\ HandlerWaits(c)
    /\ resumed' = resumed \cup {c}
    /\ toasts' = Append(toasts,
            Toast(c, IF calls[c].settled # "resolved" THEN "Analysis failed"
                     ELSE IF calls[c].op = "reanalyzeEntry" THEN "Entry re-analyzed"
                     ELSE "Entry analyzed"))
    /\ UNCHANGED <<dvars, shown, editor, mounted, avars, cvars, svars, gvars,
                   uvars, evars, hvars>>

\* No handler can go on: every call that has returned was taken up.
Resting == \A c \in 1..Len(calls) : ~HandlerWaits(c)

\* An event of the user is handled: no continuation, no handler and no
\* render is queued, and the page shows its content.
UserTurn == Resting /\ ~Queued /\ ~RenderPending /\ PageShown

\* The list of EntriesPage can be reached: the dialog of the editor is not
\* open over it.
ListShown == page = "entries" /\ ~editor.open

\* HomePage or EntriesPage is open, and has loaded the entries.
InitHandlers ==
    /\ AnalyzeIdle /\ ChatIdle /\ TagsIdle /\ DiaryIdle /\ PageStateIdle
    /\ page \in {"home", "entries"}

\* The responses of the backend and of the service are taken in any order;
\* a handler goes on after the render of the store's change that ended its
\* call, and before the next event of the user.
NextHandlers ==
    \/ UserTurn /\ HandleNewEntry
    \/ UserTurn /\ ListShown /\ \E i \in 1..Len(entries) : HandleEditEntry(entries[i])
    \/ UserTurn /\ HandleCancel
    \/ UserTurn /\ DismissEditor
    \/ UserTurn /\ \E title \in TypedTitles, content \in TypedContents :
                        SaveEnabled(content) /\ HandleSave(title, content)
    \/ UserTurn /\ ListShown /\ \E i \in 1..Len(entries) : HandleDeleteEntry(entries[i]["_id"])
    \/ UserTurn /\ ListShown /\ \E i \in 1..Len(entries) : HandleAnalyzeEntry(entries[i]["_id"])
    \/ \E c \in 1..Len(calls) : AddItemResolves(c)
    \/ \E c \in 1..Len(calls) : AddItemRejects(c)
    \/ \E c \in 1..Len(calls) : AddReloadResolves(c)
    \/ \E c \in 1..Len(calls) : AddReloadRejects(c)
    \/ \E c \in 1..Len(calls) : AddEntryEnds(c)
    \/ \E c \in 1..Len(calls) : LoadResolves(c)
    \/ \E c \in 1..Len(calls) : LoadRejects(c)
    \/ \E c \in 1..Len(calls) : DeleteItemResolves(c)
    \/ \E c \in 1..Len(calls) : DeleteItemRejects(c)
    \/ \E c \in 1..Len(calls), tr \in DiaryTransports : AnalysisArrives(c, tr)
    \/ \E c \in 1..Len(calls) : UpdateItemResolves(c)
    \/ \E c \in 1..Len(calls) : UpdateItemRejects(c)
    \/ RenderPage
    \/ ~RenderPending /\ \E c \in 1..Len(calls) : HandleSaveResumes(c)
    \/ ~RenderPending /\ \E c \in 1..Len(calls) : HandleDeleteEntryResumes(c)
    \/ ~RenderPending /\ \E c \in 1..Len(calls) : HandleAnalyzeEntryResumes(c)

SpecHandlers == InitHandlers /\ [][NextHandlers]_vars

-----------------------------------------------------------------------------
(* The auth store *)

\* Most calls of the auth store's operations.
MaxAuthCalls == 3

\* The users the provider knows.
Accounts == {[uid |-> "u1", email |-> "ann@example.com"]}

\* A call of an operation of the auth store: its name, what the provider's
\* call did, how the promise of the operation settled.
AuthCall(op) == [op |-> op, provider |-> "pending", settled |-> "pending"]

\* What the provider rejects with: an Error with a message, or something
\* that is not an Error.
Rejections == {[isError |-> TRUE, message |-> "Network error"],
               [isError |-> FALSE, message |-> ""]}

\* error instanceof Error ? error.message : <the operation's message>
AuthFailureMessage(op, err) ==
    IF err.isError THEN Str(err.message)
    ELSE IF op = "sendOTP" THEN Str("Failed to send verification code")
    ELSE Str("Invalid verification code")

\* An operation of the auth store ends: its promise settles as how.
AuthSettle(call, provider, how) ==
    [call EXCEPT !.provider = provider, !.settled = how]

AuthWaits(c, op) == authCalls[c].op = op /\ authCalls[c].settled = "pending"

\* sendOTP(email) up to the await of auth.sendOTP; the email goes to the
\* provider only.
SendOTP ==
    /\ Len(authCalls) < MaxAuthCalls
    /\ authIsLoading' = TRUE
    /\ authError' = Null
    /\ authCalls' = Append(authCalls, AuthCall("sendOTP"))
    /\ UNCHANGED <<user, isAuthenticated, avars, cvars, svars, gvars, dvars, nvars, evars, hvars>>

SendOTPResolves(c) ==
    /\ AuthWaits(c, "sendOTP")
    /\ authIsLoading' = FALSE
    /\ authCalls' = [authCalls EXCEPT ![c] = AuthSettle(@, "resolved", "resolved")]
    /\ UNCHANGED <<user, isAuthenticated, authError, avars, cvars, svars, gvars, dvars, nvars, evars, hvars>>

\* auth.sendOTP rejects: the catch block stores the message and throws again.
SendOTPRejects(c, err) ==
    /\ AuthWaits(c, "sendOTP")
    /\ authError' = AuthFailureMessage("sendOTP", err)
    /\ authIsLoading' = FALSE
    /\ authCalls' = [authCalls EXCEPT ![c] = AuthSettle(@, "rejected", "rejected")]
    /\ UNCHANGED <<user, isAuthenticated, avars, cvars, svars, gvars, dvars, nvars, evars, hvars>>

\* verifyOTP(email, code) up to the await of auth.verifyOTP.
VerifyOTP ==
    /\ Len(authCalls) < MaxAuthCalls
    /\ authIsLoading' = TRUE
    /\ authError' = Null
    /\ authCalls' = Append(authCalls, AuthCall("verifyOTP"))
    /\ UNCHANGED <<user, isAuthenticated, avars, cvars, svars, gvars, dvars, nvars, evars, hvars>>

\* auth.verifyOTP resolves with the user of the response.
VerifyOTPResolves(c, account) ==
    /\ AuthWaits(c, "verifyOTP")
    /\ user' = account
    /\ isAuthenticated' = TRUE
    /\ authIsLoading' = FALSE
    /\ authError' = Null
    /\ authCalls' = [authCalls EXCEPT ![c] = AuthSettle(@, "resolved", "resolved")]
    /\ UNCHANGED <<avars, cvars, svars, gvars, dvars, nvars, evars, hvars>>

VerifyOTPRejects(c, err) ==
    /\ AuthWaits(c, "verifyOTP")
    /\ authError' = AuthFailureMessage("verifyOTP", err)
    /\ authIsLoading' = FALSE
    /\ authCalls' = [authCalls EXCEPT ![c] = AuthSettle(@, "rejected", "rejected")]
    /\ UNCHANGED <<user, isAuthenticated, avars, cvars, svars, gvars, dvars, nvars, evars, hvars>>

\* logout() up to the await of auth.logout.
Logout ==
    /\ Len(authCalls) < MaxAuthCalls
    /\ authIsLoading' = TRUE
    /\ authCalls' = Append(authCalls, AuthCall("logout"))
    /\ UNCHANGED <<user, isAuthenticated, authError, avars, cvars, svars, gvars, dvars, nvars, evars, hvars>>

LogoutResolves(c) ==
    /\ AuthWaits(c, "logout")
    /\ user' = Null
    /\ isAuthenticated' = FALSE
    /\ authIsLoading' = FALSE
    /\ authError' = Null
    /\ authCalls' = [authCalls EXCEPT ![c] = AuthSettle(@, "resolved", "resolved")]
    /\ UNCHANGED <<avars, cvars, svars, gvars, dvars, nvars, evars, hvars>>

\* A faulty logout whose catch block only logs the error.
LogoutRejectsKeeping(c) ==
    /\ AuthWaits(c, "logout")
    /\ authCalls' = [authCalls EXCEPT ![c] = AuthSettle(@, "rejected", "resolved")]
    /\ UNCHANGED <<user, isAuthenticated, authIsLoading, authError, avars, cvars,
                   svars, gvars, dvars, nvars, evars, hvars>>

\* auth.logout rejects: the catch block clears the local state all the same,
\* and logout resolves.
LogoutRejects(c) ==
    /\ AuthWaits(c, "logout")
    /\ user' = Null
    /\ isAuthenticated' = FALSE
    /\ authIsLoading' = FALSE
    /\ authError' = Null
    /\ authCalls' = [authCalls EXCEPT ![c] = AuthSettle(@, "rejected", "resolved")]
    /\ UNCHANGED <<avars, cvars, svars, gvars, dvars, nvars, evars, hvars>>

\* clearError()
ClearAuthError ==
    /\ authError # Null
    /\ authError' = Null
    /\ UNCHANGED <<user, isAuthenticated, authIsLoading, authCalls, avars, cvars,
                   svars, gvars, dvars, nvars, evars, hvars>>

\* What ProtectedRoute renders.
ProtectedRoute(authenticated) ==
    IF ~authenticated THEN "LoginPage" ELSE "children"

InitAuth == AnalyzeIdle /\ ChatIdle /\ TagsIdle /\ DiaryIdle /\ PagesIdle

NextAuth ==
    \/ SendOTP
    \/ \E c \in 1..Len(authCalls) : SendOTPResolves(c)
    \/ \E c \in 1..Len(authCalls), err \in Rejections : SendOTPRejects(c, err)
    \/ VerifyOTP
    \/ \E c \in 1..Len(authCalls), account \in Accounts : VerifyOTPResolves(c, account)
    \/ \E c \in 1..Len(authCalls), err \in Rejections : VerifyOTPRejects(c, err)
    \/ Logout
    \/ \E c \in 1..Len(authCalls) : LogoutResolves(c)
    \/ \E c \in 1..Len(authCalls) : LogoutRejects(c)
    \/ ClearAuthError

SpecAuth == InitAuth /\ [][NextAuth]_vars

-----------------------------------------------------------------------------
(* The pages that read the diary store: HomePage, EntriesPage, ChatPage *)

\* Most entries the table holds when the app starts, and most page visits
\* that load the entries.
MaxStored == 6
MaxVisits == 3

\* The entries of the diary context, and the characters of each content.
MaxContextEntries == 5
MaxContextChars == 200

SortOptions == {"newest", "oldest", "mood"}
SearchTerms == {"", "day"}
DateFilters == {"", "2024-01-01"}

Titles == <<"Day 1", "Day 2", "Day 3", "Day 4", "Day 5", "Day 6", "Day 7", "Day 8">>

\* The sentiments of the stored entries, in tenths; 0 for an entry that was
\* never analyzed.
Sentiments == <<8, 0, -5, 3, 0, 10, -2, 0>>

\* The entry the table holds under _id i when the app starts: the later the
\* entry, the greater its _id and its createdAt; contents of 3, 200 and 201
\* characters.
StoredEntry(i) ==
    LET k == ((i - 1) % Len(Titles)) + 1
        content == Letters(CASE i % 3 = 0 -> MaxContextChars + 1
                             [] i % 3 = 1 -> MaxContextChars
                             [] OTHER -> 3)
        entry == [_id |-> i, _uid |-> "user", title |-> Titles[k],
                  content |-> content, date |-> "2024-01-01",
                  imageUrl |-> Undefined, wordCount |-> WordCount(content),
                  createdAt |-> i, updatedAt |-> i]
    IN  IF Sentiments[k] = 0 THEN entry
        ELSE Spread(entry, [mood |-> Str("happy"), sentiment |-> Num(Sentiments[k])])

\* seq.slice(0, n) of a list of entries or of characters.
SliceSeq(seq, n) == SubSeq(seq, 1, MinOf(n, Len(seq)))

\* `Date: ${entry.date}\nTitle: ${entry.title}\nContent: ${...}...`: the
\* template, held by the values it is filled with.
ContextBlock(entry) ==
    [date |-> entry.date, title |-> entry.title,
     content |-> SliceSeq(entry.content, MaxContextChars)]

\* getRecentDiaryContext(): the blocks joined under their heading, undefined
\* when there is none.
GetRecentDiaryContext(es) ==
    LET recent == SliceSeq(es, MaxContextEntries)
        recentEntries == [i \in 1..Len(recent) |-> ContextBlock(recent[i])]
    IN  IF recentEntries # <<>>
        THEN [t |-> "context", blocks |-> recentEntries]
        ELSE Undefined

\* The useEffect of HomePage and EntriesPage: loadEntries() up to its await.
PageLoads(p) ==
    /\ Len(calls) < MaxVisits
    /\ isLoading' = TRUE
    /\ error' = Null
    /\ calls' = Append(calls, Call("loadEntries", "awaitGetItems", 0, <<>>,
                                   <<>>, NoEntry, 0))

\* The route "/" is opened: HomePage renders, then loads the entries.
OpenHomePage ==
    /\ page # "home"
    /\ PageLoads("home")
    /\ page' = "home"
    /\ entries' = Rendered("home", sortBy, searchTerm, dateFilter, entries)
    /\ UNCHANGED <<table, nextId, isAnalyzing, now, sortBy, searchTerm, dateFilter,
                   diaryContext, avars, cvars, svars, gvars, nvars, uvars, hvars>>

\* The route "/entries" is opened: EntriesPage renders with its initial
\* state, then its effects run: it loads the entries, and it shows the error
\* its render read from the store, if any, in a toast and clears it; the
\* toast belongs to no call of the page (call 0).
OpenEntriesPage ==
    /\ page # "entries"
    /\ PageLoads("entries")
    /\ page' = "entries"
    /\ sortBy' = "newest"
    /\ searchTerm' = ""
    /\ dateFilter' = ""
    /\ entries' = Rendered("entries", "newest", "", "", entries)
    /\ toasts' = IF Truthy(error)
                 THEN Append(toasts, Toast(0, "Error"))
                 ELSE toasts
    /\ UNCHANGED <<table, nextId, isAnalyzing, now, resumed, shown, editor,
                   mounted, diaryContext, avars, cvars, svars, gvars, uvars, hvars>>

\* The route "/chat" is opened: ChatPage reads the entries of the store and
\* loads nothing.
OpenChatPage ==
    /\ page # "chat"
    /\ page' = "chat"
    /\ UNCHANGED <<dvars, sortBy, searchTerm, dateFilter, diaryContext, avars,
                   cvars, svars, gvars, nvars, uvars, hvars>>

\* setSortBy(by) on EntriesPage, and the render that follows. The control
\* is there when the page shows its content, not the loading placeholder.
SetSortBy(by) ==
    /\ page = "entries"
    /\ PageShown
    /\ by # sortBy
    /\ sortBy' = by
    /\ entries' = Rendered(page, by, searchTerm, dateFilter, entries)
    /\ UNCHANGED <<table, nextId, isLoading, isAnalyzing, error, now, calls, page,
                   searchTerm, dateFilter, diaryContext, avars, cvars, svars,
                   gvars, nvars, uvars, hvars>>

\* setSearchTerm(term) on EntriesPage, and the render that follows; the
\* input is there when the page shows its content.
SetSearchTerm(term) ==
    /\ page = "entries"
    /\ PageShown
    /\ term # searchTerm
    /\ searchTerm' = term
    /\ entries' = Rendered(page, sortBy, term, dateFilter, entries)
    /\ UNCHANGED <<table, nextId, isLoading, isAnalyzing, error, now, calls, page,
                   sortBy, dateFilter, diaryContext, avars, cvars, svars, gvars,
                   nvars, uvars, hvars>>

\* setDateFilter(date) on EntriesPage, and the render that follows; the
\* input is there when the page shows its content.
SetDateFilter(date) ==
    /\ page = "entries"
    /\ PageShown
    /\ date # dateFilter
    /\ dateFilter' = date
    /\ entries' = Rendered(page, sortBy, searchTerm, date, entries)
    /\ UNCHANGED <<table, nextId, isLoading, isAnalyzing, error, now, calls, page,
                   sortBy, searchTerm, diaryContext, avars, cvars, svars, gvars,
                   nvars, uvars, hvars>>

\* ChatPage builds the diary context of a message it sends.
BuildDiaryContext ==
    /\ page = "chat"
    /\ diaryContext' = GetRecentDiaryContext(entries)
    /\ UNCHANGED <<dvars, page, sortBy, searchTerm, dateFilter, avars, cvars,
                   svars, gvars, nvars, uvars, hvars>>

\* The app starts with the entries it persisted, newest first as loadEntries
\* left them.
InitPages ==
    /\ AnalyzeIdle /\ ChatIdle /\ TagsIdle /\ PagesIdle
    /\ \E n \in 0..MaxStored :
        /\ table = [i \in 1..n |-> StoredEntry(i)]
        /\ nextId = n + 1
        /\ now = n + 1
        /\ entries = ItemsDesc([i \in 1..n |-> StoredEntry(i)])
    /\ isLoading = FALSE
    /\ isAnalyzing = FALSE
    /\ error = Null
    /\ calls = <<>>

\* The pages are opened and used when no render is queued; the responses
\* of the backend are taken in any order.
NextPages ==
    \/ ~RenderPending /\ OpenHomePage
    \/ ~RenderPending /\ OpenEntriesPage
    \/ ~RenderPending /\ OpenChatPage
    \/ ~RenderPending /\ \E by \in SortOptions : SetSortBy(by)
    \/ ~RenderPending /\ \E term \in SearchTerms : SetSearchTerm(term)
    \/ ~RenderPending /\ \E date \in DateFilters : SetDateFilter(date)
    \/ \E c \in 1..Len(calls) : LoadResolves(c)
    \/ \E c \in 1..Len(calls) : LoadRejects(c)
    \/ RenderPage
    \/ ~RenderPending /\ BuildDiaryContext

SpecPages == InitPages /\ [][NextPages]_vars

-----------------------------------------------------------------------------
(* ChatPage and the chat store *)

\* Most calls of handleSendMessage that pass its guard, and most chunks a
\* stream of the page delivers.
MaxSends == 2
MaxPageChunks == 2

\* What the user types: a message with a space after it, a blank.
Inputs == {<<"o", "k", " ">>, <<" ">>}

\* The chunks of the page's streams: with text, without, malformed.
PageChunks == {Chunk(Str("Hel")), Chunk(Str("lo")), Chunk(Null), EmptyObject}

\* addMessage(message) at that time.
AddMessage(msgs, role, content, time) ==
    Append(msgs, ChatMsg(role, content, time))

\* A faulty updateLastMessage that adds a message for every fragment.
UpdateLastMessageAppending(msgs, content) ==
    Append(msgs, ChatMsg("assistant", content, 0))

\* updateLastMessage(content): the content of the last message is replaced
\* when there is one and its role is assistant.
UpdateLastMessage(msgs, content) ==
    IF msgs # <<>> /\ msgs[Len(msgs)].role = "assistant"
    THEN [msgs EXCEPT ![Len(msgs)].content = content]
    ELSE msgs

\* Two messages are one object: addMessage makes one object of a role at a
\* time, and the arrays made from the store's share its objects.
SameMessage(a, b) == a.role = b.role /\ a.timestamp = b.timestamp

\* An array that holds messages of the store, after updateLastMessage(content)
\* on the store's msgs: the content is written into the last message itself
\* (lastMessage.content = content), so every array that holds it shows it.
WrittenInPlace(held, msgs, content) ==
    IF msgs # <<>> /\ msgs[Len(msgs)].role = "assistant"
    THEN [i \in 1..Len(held) |->
            IF SameMessage(held[i], msgs[Len(msgs)])
            THEN [held[i] EXCEPT !.content = content]
            ELSE held[i]]
    ELSE held

\* What a render of ChatPage reads from its state and from the chat store.
Snapshot == [input |-> input, isLoading |-> chatIsLoading,
             isStreaming |-> isStreaming, messages |-> storedMessages]

\* ChatPage has rendered the current values.
Displayed == view = Snapshot

\* ChatPage renders again: its handlers close over the current values.
RenderChatPage ==
    /\ view # Snapshot
    /\ view' = Snapshot
    /\ UNCHANGED <<storedMessages, isStreaming, chatIsLoading, input, sends, avars,
                   cvars, svars, gvars, dvars, nvars, uvars, evars>>

\* The texts of the two buttons shown while the conversation is empty.
MoodAnalysis ==
    <<"H", "o", "w", " ", "a", "m", " ", "I", " ", "f", "e", "e", "l", "i",
      "n", "g", " ", "b", "a", "s", "e", "d", " ", "o", "n", " ", "m", "y",
      " ", "r", "e", "c", "e", "n", "t", " ", "e", "n", "t", "r", "i", "e",
      "s", "?">>

PatternRecognition ==
    <<"W", "h", "a", "t", " ", "t", "h", "e", "m", "e", "s", " ", "d", "o",
      " ", "y", "o", "u", " ", "n", "o", "t", "i", "c", "e", " ", "i", "n",
      " ", "m", "y", " ", "d", "i", "a", "r", "y", "?">>

Suggestions == {MoodAnalysis, PatternRecognition}

\* onChange of the input: setInput(text). The input is disabled while the
\* page shows isLoading or isStreaming.
TypeInput(text) ==
    /\ ~view.isLoading /\ ~view.isStreaming
    /\ text # input
    /\ input' = text
    /\ UNCHANGED <<storedMessages, isStreaming, chatIsLoading, view, sends, avars,
                   cvars, svars, gvars, dvars, nvars, uvars, evars>>

\* onClick of a button of the empty conversation: setInput(text).
SuggestInput(text) ==
    /\ view.messages = <<>>
    /\ text # input
    /\ input' = text
    /\ UNCHANGED <<storedMessages, isStreaming, chatIsLoading, view, sends, avars,
                   cvars, svars, gvars, dvars, nvars, uvars, evars>>

\* A faulty guard that looks at the input alone.
SendGuardInputOnly(v) == Trim(v.input) # <<>>

\* The guard of handleSendMessage, on the values of the render it belongs to.
SendGuard(v) == Trim(v.input) # <<>> /\ ~v.isLoading /\ ~v.isStreaming

\* handleSendMessage up to its first await: the guard passes, the user
\* message and an empty assistant message are added, both flags are set, and
\* the generator issues the streaming request. base is the length of the
\* conversation before the send; cleared tells that clearChat ran since.
HandleSendMessage ==
    /\ Len(sends) < MaxSends
    /\ SendGuard(view)
    /\ LET userMessage == Chars(Trim(view.input))
           ctx == GetRecentDiaryContext(entries)
       IN  /\ input' = <<>>
           /\ storedMessages' =
                AddMessage(AddMessage(storedMessages, "user", userMessage, now),
                           "assistant", Text(<<>>), now)
           /\ chatIsLoading' = TRUE
           /\ isStreaming' = TRUE
           /\ diaryContext' = ctx
           /\ sends' = Append(sends,
                              [pc |-> "streaming", sPc |-> "awaitCreate",
                               chatMessages |->
                                    Append(view.messages,
                                           ChatMsg("user", userMessage, now)),
                               diaryContext |-> ctx,
                               userMessage |-> userMessage,
                               fullResponse |-> <<>>, taken |-> 0,
                               yielded |-> <<>>, base |-> Len(storedMessages),
                               cleared |-> FALSE])
           /\ now' = now + 1
    /\ UNCHANGED <<table, nextId, entries, isLoading, isAnalyzing, error, calls,
                   view, page, sortBy, searchTerm, dateFilter, avars, cvars,
                   svars, gvars, nvars, uvars>>

\* The generator of send s has run to the state g: the loop of
\* handleSendMessage adds a fragment it yielded to fullResponse and calls
\* updateLastMessage, which writes into the message held by the last render
\* and by the chatMessages of the sends. After the fallback fragment the
\* loop awaits the generator once more; when the generator has ended without
\* a fragment, the finally block resets both flags.
SendRuns(s, g, took) ==
    LET got == g.pc \in {"yielded", "yieldedFallback"}
        over == g.pc = "done"
        full == IF got
                THEN Append(sends[s].fullResponse, g.yielded[Len(g.yielded)].s)
                ELSE sends[s].fullResponse
        held(msgs) == IF got THEN WrittenInPlace(msgs, storedMessages, Text(full))
                      ELSE msgs
    IN  /\ storedMessages' = IF got
                              THEN UpdateLastMessage(storedMessages, Text(full))
                              ELSE storedMessages
        /\ view' = [view EXCEPT !.messages = held(@)]
        /\ sends' = [k \in 1..Len(sends) |->
                        IF k # s
                        THEN [sends[k] EXCEPT !.chatMessages = held(@)]
                        ELSE [sends[k] EXCEPT
                                !.fullResponse = full,
                                !.yielded = g.yielded,
                                !.taken = @ + took,
                                !.sPc = IF g.pc = "yielded" THEN "awaitChunk"
                                        ELSE g.pc,
                                !.pc = IF over THEN "done" ELSE @,
                                !.chatMessages = IF over THEN <<>> ELSE held(@)]]
        /\ IF over
           THEN chatIsLoading' = FALSE /\ isStreaming' = FALSE
           ELSE UNCHANGED <<chatIsLoading, isStreaming>>
        /\ UNCHANGED <<input, avars, cvars, svars, gvars, dvars, nvars, uvars,
                       evars>>

\* The generator of send s ends after its fallback fragment: the loop of
\* handleSendMessage ends and the finally block resets both flags.
SendFinally(s) ==
    /\ sends[s].sPc = "yieldedFallback"
    /\ sends' = [sends EXCEPT ![s].sPc = "done", ![s].pc = "done",
                              ![s].chatMessages = <<>>]
    /\ chatIsLoading' = FALSE
    /\ isStreaming' = FALSE
    /\ UNCHANGED <<storedMessages, input, view, avars, cvars, svars, gvars, dvars,
                   nvars, uvars, evars>>

\* The finally block of a send is about to run: it runs before the next
\* event of the user is handled.
Ending == \E s \in 1..Len(sends) : sends[s].sPc = "yieldedFallback"

\* The streaming request of send s rejects.
SendCreateRejects(s) ==
    /\ sends[s].sPc = "awaitCreate"
    /\ SendRuns(s, StreamCatch(sends[s].yielded), 0)

\* The streaming request of send s resolves with a stream.
SendCreateResolves(s) ==
    /\ sends[s].sPc = "awaitCreate"
    /\ SendRuns(s, [pc |-> "awaitChunk", yielded |-> sends[s].yielded], 0)

\* The stream of send s delivers a chunk.
SendChunk(s, chunk) ==
    /\ sends[s].sPc = "awaitChunk"
    /\ sends[s].taken < MaxPageChunks
    /\ SendRuns(s, StreamLoopBody(chunk, sends[s].yielded), 1)

\* The stream.return() awaited by the loop of the generator of send s
\* settles: the catch block yields the fallback fragment.
SendReturnSettles(s) ==
    /\ sends[s].sPc = "awaitReturn"
    /\ SendRuns(s, StreamCatch(sends[s].yielded), 0)

\* The stream of send s signals its end.
SendStreamEnds(s) ==
    /\ sends[s].sPc = "awaitChunk"
    /\ SendRuns(s, [pc |-> "done", yielded |-> sends[s].yielded], 0)

\* The stream of send s fails while a chunk is awaited.
SendStreamFails(s) ==
    /\ sends[s].sPc = "awaitChunk"
    /\ SendRuns(s, StreamCatch(sends[s].yielded), 0)

\* The Clear Chat button: clearChat().
ClearChat ==
    /\ storedMessages # <<>>
    /\ storedMessages' = <<>>
    /\ sends' = [s \in 1..Len(sends) |->
                    IF sends[s].pc # "done"
                    THEN [sends[s] EXCEPT !.cleared = TRUE]
                    ELSE sends[s]]
    /\ UNCHANGED <<isStreaming, chatIsLoading, input, view, avars, cvars, svars,
                   gvars, dvars, nvars, uvars, evars>>

InitChatPage == AnalyzeIdle /\ ChatIdle /\ TagsIdle /\ DiaryIdle /\ PagesIdle

\* A state change of the page or of the store is rendered before the next
\* event or response is handled; only the finally block of a send may run
\* before the render.
NextChatPage ==
    \/ RenderChatPage
    \/ Displayed /\ ~Ending /\ HandleSendMessage
    \/ \E s \in 1..Len(sends) : SendFinally(s)
    \/ Displayed /\ ~Ending /\ \E text \in Inputs : TypeInput(text)
    \/ Displayed /\ ~Ending /\ \E text \in Suggestions : SuggestInput(text)
    \/ Displayed /\ \E s \in 1..Len(sends) : SendCreateRejects(s)
    \/ Displayed /\ \E s \in 1..Len(sends) : SendCreateResolves(s)
    \/ Displayed /\ \E s \in 1..Len(sends), chunk \in PageChunks : SendChunk(s, chunk)
    \/ Displayed /\ \E s \in 1..Len(sends) : SendReturnSettles(s)
    \/ Displayed /\ \E s \in 1..Len(sends) : SendStreamEnds(s)
    \/ Displayed /\ \E s \in 1..Len(sends) : SendStreamFails(s)
    \/ Displayed /\ ~Ending /\ ClearChat

SpecChatPage == InitChatPage /\ [][NextChatPage]_vars

-----------------------------------------------------------------------------
(* Properties of the diary store *)

Range(seq) == {seq[i] : i \in 1..Len(seq)}

\* The calls of analyzeEntry that addEntry call c made.
Background(c) == {a \in 1..Len(calls) : calls[a].by = c}

InFlight(a) == calls[a].pc \in {"awaitAnalyzeEmotion", "awaitUpdateItem"}

\* Call c settles in this step.
Settles(c) == calls[c].settled = "pending" /\ calls'[c].settled # "pending"

\* Every analysis made by an addEntry call belongs to a call that has
\* resolved after its table write.
AddReturned ==
    \A a \in 1..Len(calls) :
        calls[a].by # 0 =>
            /\ calls[calls[a].by].op = "addEntry"
            /\ calls[calls[a].by].settled = "resolved"
            /\ calls[calls[a].by].wrote

\* The step in which an addEntry call settles: it resolves, with isLoading
\* false, after the reload when its table write was done, and the analysis
\* it has just made, if any, is in flight or has ended at once.
AddReturns ==
    \A c \in 1..Len(calls) :
        calls[c].op = "addEntry" /\ Settles(c) =>
            /\ calls'[c].settled = "resolved"
            /\ isLoading' = FALSE
            /\ calls[c].wrote <=> calls[c].pc = "awaitLoadEntries"
            /\ \A a \in (Len(calls) + 1)..Len(calls') :
                    /\ calls'[a].by = c
                    /\ calls'[a].op = "analyzeEntry"
                    /\ calls'[a].pc \in {"awaitAnalyzeEmotion", "done"}

\* C17: addEntry resolves, with isLoading false, once its table write and
\* its reload are done, and does not wait for the analyzeEntry it makes:
\* that call is still in flight when addEntry resolves, and no state has an
\* analysis made by an addEntry that has not resolved.
C17_AddDoesNotWait == []AddReturned /\ [][AddReturns]_vars

C17_Witness ==
    \E c \in 1..Len(calls) :
        /\ calls[c].op = "addEntry"
        /\ calls[c].settled = "resolved"
        /\ calls[c].wrote
        /\ isLoading = FALSE
        /\ \E a \in Background(c) : calls[a].pc = "awaitAnalyzeEmotion"

\* What the user wrote in an entry: its title, content, date and image.
UserFields(e) == [k \in {"title", "content", "date", "imageUrl"} |-> Prop(e, k)]

\* The entry with that _id among es.
EntryOf(es, id) == es[IndexOfId(es, id)]

\* The entry with that _id keeps its place in the table and in the store
\* over this step, with what the user wrote in it.
SaveKept(id) ==
    /\ id \in DOMAIN table =>
            /\ id \in DOMAIN table'
            /\ UserFields(table'[id]) = UserFields(table[id])
    /\ IndexOfId(entries, id) # 0 =>
            /\ IndexOfId(entries', id) # 0
            /\ UserFields(EntryOf(entries', id)) = UserFields(EntryOf(entries, id))

\* The analysis a call holds is the fallback of a degraded analyzeEmotion.
Degraded(call) ==
    /\ call.pc = "awaitUpdateItem"
    /\ Prop(call.item, "emotionSummary") = FallbackAnalysis.summary

\* A step of analysis call a whose analysis failed: its table.updateItem
\* rejects, or it takes or writes the fallback of a degraded analyzeEmotion.
FailedAnalysisStep(a) ==
    /\ calls'[a] # calls[a]
    /\ \/ calls'[a].pc = "done" /\ ~calls'[a].wrote
       \/ Degraded(calls[a])
       \/ Degraded(calls'[a])

\* C18: when the analyzeEntry made by addEntry fails (analyzeEmotion
\* degrades to its fallback, or table.updateItem rejects), the entry stays in
\* the table and in the store's entries with its title, content, date and
\* image as they were, and the addEntry call stays resolved.
C18_SaveSurvivesFailedAnalysis ==
    [][\A a \in 1..Len(calls) :
            calls[a].by # 0 /\ InFlight(a) /\ FailedAnalysisStep(a) =>
                /\ SaveKept(calls[a].id)
                /\ calls'[calls[a].by].settled = "resolved"]_vars

\* The calls of analyzeEntry that wrote the analysis of the entry with that _id.
AnalysisWrites(id) ==
    {c \in 1..Len(calls) :
        calls[c].op = "analyzeEntry" /\ calls[c].id = id /\ calls[c].wrote}

\* C19: however the analyzeEntry made by addEntry and the analyzeEntry calls
\* made by hand interleave, at most one analyzeEntry call writes the analysis
\* fields of an entry.
C19_AnalyzedOnce ==
    \A id \in 1..(nextId - 1) : Cardinality(AnalysisWrites(id)) <= 1

\* Call c of analyzeEntry or reanalyzeEntry writes its updatedEntry back in
\* this step.
WritesBack(c) ==
    /\ calls[c].op \in {"analyzeEntry", "reanalyzeEntry"}
    /\ calls[c].pc = "awaitUpdateItem"
    /\ calls'[c].wrote

\* Every entry but the one with that _id is, in the table and in the store,
\* what it was before this step.
OthersKept(id) ==
    /\ DOMAIN table' \ {id} = DOMAIN table \ {id}
    /\ \A i \in DOMAIN table \ {id} : table'[i] = table[i]
    /\ FilterOut(entries', id) = FilterOut(entries, id)

\* C20: the write-back of analyzeEntry and reanalyzeEntry changes nothing
\* but the analysis fields and the timestamp of its entry: that entry keeps
\* its title, content, date and image, and every other entry is, in the
\* table and in the store, what it was just before the write-back, whatever
\* ran while analyzeEmotion was awaited.
C20_WriteBackFrame ==
    [][\A c \in 1..Len(calls) :
            WritesBack(c) => SaveKept(calls[c].id) /\ OthersKept(calls[c].id)]_vars

\* The calls made in this step.
Started == (Len(calls) + 1)..Len(calls')

\* Call a of analyzeEntry is made in this step for an entry that the
\* entries it reads hold with a mood and a defined sentiment.
StartsOnAnalyzed(a) ==
    /\ calls'[a].op = "analyzeEntry"
    /\ IndexOfId(entries', calls'[a].id) # 0
    /\ Truthy(Prop(EntryOf(entries', calls'[a].id), "mood"))
    /\ Prop(EntryOf(entries', calls'[a].id), "sentiment") # Undefined

\* A call that has returned takes no further step.
EndedCallsRest ==
    \A c \in 1..Len(calls) : calls[c].pc = "done" => calls'[c] = calls[c]

\* C21: analyzeEntry for an entry that has a mood and a defined sentiment
\* returns at once: it makes no analyzeEmotion call and no table write,
\* leaves the table and the entries as they are (an analyzeEntry made by
\* addEntry leaves the entries as its loadEntries left them), ends with
\* isAnalyzing false, and takes no later step.
C21_SkipsAnalyzed ==
    [][/\ EndedCallsRest
       /\ \A a \in Started :
            StartsOnAnalyzed(a) =>
                /\ calls'[a].pc = "done"
                /\ calls'[a].settled = "resolved"
                /\ ~calls'[a].wrote
                /\ table' = table
                /\ isAnalyzing' = FALSE
                /\ calls'[a].by = 0 => entries' = entries
                /\ calls'[a].by # 0 => entries' \in {entries, ItemsDesc(table)}]_vars

\* An analyzeEntry call wrote the analysis of an entry, and a later
\* analyzeEntry call for that entry has returned without a write or a failure.
C21_Witness ==
    \E a, b \in 1..Len(calls) :
        /\ b < a
        /\ calls[a].op = "analyzeEntry" /\ calls[b].op = "analyzeEntry"
        /\ calls[a].id = calls[b].id
        /\ calls[b].wrote
        /\ calls[a].pc = "done" /\ ~calls[a].wrote
        /\ error = Null
        /\ isAnalyzing = FALSE
        /\ IndexOfId(entries, calls[a].id) # 0
        /\ AlreadyAnalyzed(EntryOf(entries, calls[a].id))

\* C22: the entry that addEntry hands to analyzeEntry is the entry its own
\* table write created, also when another entry has the same content and
\* when the reload failed.
C22_AnalyzesOwnEntry ==
    \A a \in 1..Len(calls) :
        calls[a].by # 0 => calls[a].id = calls[calls[a].by].id

\* C23: an analyzeEntry call is made by addEntry only in the step in which
\* its reload returns, after its table write resolved, and only for a content
\* of more than 50 characters once trimmed; an addEntry whose table write
\* rejects, or whose trimmed content has 50 characters or fewer, makes none.
C23_AnalysisAfterSave ==
    [][/\ \A a \in Started :
            calls'[a].by # 0 =>
                /\ calls'[a].op = "analyzeEntry"
                /\ calls'[a].by \in 1..Len(calls)
                /\ calls[calls'[a].by].op = "addEntry"
                /\ calls[calls'[a].by].pc = "awaitLoadEntries"
                /\ calls[calls'[a].by].wrote
                /\ Len(Trim(calls[calls'[a].by].data.content)) > 50
       /\ \A c \in 1..Len(calls) :
            /\ calls[c].op = "addEntry"
            /\ Settles(c)
            /\ \/ calls[c].pc = "awaitAddItem"
               \/ Len(Trim(calls[c].data.content)) <= 50
            => Started = {}]_vars

\* Two addEntry calls have returned after their table writes: one for a
\* content of 50 characters once trimmed, which made no analyzeEntry call,
\* and one that made an analyzeEntry call.
C23_Witness ==
    \E c, d \in 1..Len(calls) :
        /\ calls[c].op = "addEntry" /\ calls[d].op = "addEntry"
        /\ calls[c].settled = "resolved" /\ calls[d].settled = "resolved"
        /\ calls[c].wrote /\ calls[d].wrote
        /\ Background(c) # {}
        /\ Background(d) = {}
        /\ calls[d].id \in DOMAIN table
        /\ Len(Trim(table[calls[d].id]["content"])) = 50
        /\ Len(table[calls[d].id]["content"]) > 50

\* A deleteEntry call for the entry with that _id has removed it.
Deleted(id) ==
    \E c \in 1..Len(calls) :
        calls[c].op = "deleteEntry" /\ calls[c].id = id /\ calls[c].wrote

\* This step is the local state update of a call whose table write
\* resolved: set({ entries: ... }) over the entries the call read.
LocalUpdate ==
    \E c \in 1..Len(calls) :
        /\ calls[c].pc \in {"awaitUpdateItem", "awaitDeleteItem"}
        /\ calls'[c].wrote

\* C26: once deleteEntry has removed an entry, no local state update of
\* analyzeEntry, reanalyzeEntry, updateEntry or deleteEntry puts it back in
\* the store's entries.
C26_DeletedStaysGone ==
    [][\A id \in 1..(nextId - 1) :
            Deleted(id) /\ IndexOfId(entries, id) = 0 /\ LocalUpdate
                => IndexOfId(entries', id) = 0]_vars

\* The entry holds the fallback analysis of a failed analyzeEmotion.
HoldsFallback(e) ==
    /\ Prop(e, "mood") = FallbackAnalysis.mood
    /\ Prop(e, "sentiment") = FallbackAnalysis.sentiment
    /\ Prop(e, "emotionSummary") = FallbackAnalysis.summary

\* The analysis fields of an entry.
AnalysisOf(e) ==
    [k \in {"mood", "sentiment", "emotions", "emotionSummary", "tags"} |-> Prop(e, k)]

\* The analysis fields of the entry with that _id change in this step, in
\* the table or in the store.
AnalysisReplaced(id) ==
    \/ /\ id \in DOMAIN table /\ id \in DOMAIN table'
       /\ HoldsFallback(table[id])
       /\ AnalysisOf(table'[id]) # AnalysisOf(table[id])
    \/ /\ IndexOfId(entries, id) # 0 /\ IndexOfId(entries', id) # 0
       /\ HoldsFallback(EntryOf(entries, id))
       /\ AnalysisOf(EntryOf(entries', id)) # AnalysisOf(EntryOf(entries, id))

\* C30: the fallback analysis of a failed AI call is written on the entry
\* like any analysis; an analyzeEntry call made for an entry that holds it
\* returns at once, and only the write-back of a reanalyzeEntry call changes
\* the analysis fields of an entry that holds it.
C30_FallbackSticks ==
    [][/\ \A c \in 1..Len(calls) :
            WritesBack(c) /\ Degraded(calls[c]) =>
                /\ HoldsFallback(table'[calls[c].id])
                /\ AlreadyAnalyzed(EntryOf(entries', calls[c].id))
       /\ \A a \in Started :
            /\ calls'[a].op = "analyzeEntry"
            /\ IndexOfId(entries', calls'[a].id) # 0
            /\ HoldsFallback(EntryOf(entries', calls'[a].id))
            => calls'[a].pc = "done" /\ ~calls'[a].wrote
       /\ \A id \in 1..(nextId - 1) :
            AnalysisReplaced(id) =>
                \E c \in 1..Len(calls) :
                    /\ calls[c].op = "reanalyzeEntry"
                    /\ calls[c].id = id
                    /\ WritesBack(c)]_vars

\* The titles of the notifications of success.
SuccessTitles ==
    {"Entry saved", "Entry updated", "Entry deleted", "Entry analyzed",
     "Entry re-analyzed"}

\* C27: a notification of success is shown only for a call whose table
\* write resolved, and the handler of an analysis that failed shows
\* "Analysis failed".
C27_ToastOnlyOnSuccess ==
    /\ \A t \in Range(toasts) : t.title \in SuccessTitles => calls[t.call].wrote
    /\ \A c \in resumed :
            calls[c].op \in {"analyzeEntry", "reanalyzeEntry"} /\ ~calls[c].wrote
                => Toast(c, "Analysis failed") \in Range(toasts)

\* C25: the step in which a logout call ends, whether auth.logout resolved
\* or rejected, resolves the call and leaves user null, isAuthenticated
\* false, isLoading false and error null, so that ProtectedRoute renders
\* the login page.
C25_LogoutClears ==
    [][\A c \in 1..Len(authCalls) :
            AuthWaits(c, "logout") /\ authCalls'[c].settled # "pending" =>
                /\ authCalls'[c].settled = "resolved"
                /\ user' = Null
                /\ isAuthenticated' = FALSE
                /\ authIsLoading' = FALSE
                /\ authError' = Null
                /\ ProtectedRoute(isAuthenticated') = "LoginPage"]_vars

\* A user signed in, and their logout has ended after auth.logout rejected.
C25_Witness ==
    \E c, d \in 1..Len(authCalls) :
        /\ c < d
        /\ authCalls[c].op = "verifyOTP" /\ authCalls[c].settled = "resolved"
        /\ authCalls[d].op = "logout" /\ authCalls[d].provider = "rejected"
        /\ authCalls[d].settled = "resolved"
        /\ isAuthenticated = FALSE
        /\ user = Null

\* The entries of es with the greatest createdAt, at most n of them.
Newest(es, n) == {e \in Range(es) :
                    Cardinality({f \in Range(es) : f.createdAt > e.createdAt}) < n}

\* C24: the diary context of a chat message holds at most 5 entries, each
\* content cut to 200 characters, and they are the 5 newest entries of the
\* store, whatever EntriesPage sorted by last.
C24_ContextOfNewest ==
    diaryContext.t = "context" =>
        /\ Len(diaryContext.blocks) <= MaxContextEntries
        /\ \A i \in 1..Len(diaryContext.blocks) :
                Len(diaryContext.blocks[i].content) <= MaxContextChars
        /\ Range(diaryContext.blocks)
                = {ContextBlock(e) : e \in Newest(entries, MaxContextEntries)}

\* The sends whose stream has not ended.
Streaming == {s \in 1..Len(sends) : sends[s].pc # "done"}

\* Send s finishes in this step.
Finishes(s) == sends[s].pc # "done" /\ sends'[s].pc = "done"

\* C28: at most one streamed response is in flight on the chat page, and
\* when a send finishes isLoading and isStreaming are both false.
C28_OneStreamInFlight ==
    [][/\ Cardinality(Streaming') <= 1
       /\ \A s \in 1..Len(sends) :
            Finishes(s) => ~chatIsLoading' /\ ~isStreaming']_vars

\* A stream is in flight and the page, rendered, holds a text to send (the
\* chat was cleared and a suggestion chosen meanwhile): the send is refused.
C28_Witness ==
    /\ Len(sends) = 1
    /\ Cardinality(Streaming) = 1
    /\ Displayed /\ ~Ending
    /\ Trim(input) # <<>>
    /\ chatIsLoading /\ isStreaming

\* C29: when a send finishes and the chat was not cleared meanwhile, the
\* conversation holds two messages more than before the send: the user's
\* message, then an assistant message whose content is the fragments the
\* stream yielded, in order. updateLastMessage leaves the number of messages,
\* every message but the last and a last message of the user as they are.
C29_SendAddsTwo ==
    [][/\ \A s \in 1..Len(sends) :
            Finishes(s) /\ ~sends'[s].cleared =>
                /\ Len(storedMessages') = sends[s].base + 2
                /\ storedMessages'[sends[s].base + 1].role = "user"
                /\ storedMessages'[sends[s].base + 1].content
                        = sends[s].userMessage
                /\ storedMessages'[sends[s].base + 2].role = "assistant"
                /\ storedMessages'[sends[s].base + 2].content
                        = Text([i \in 1..Len(sends'[s].yielded) |->
                                    sends'[s].yielded[i].s])
       /\ Len(sends') = Len(sends) /\ storedMessages' # <<>> =>
            /\ Len(storedMessages') = Len(storedMessages)
            /\ \A i \in 1..(Len(storedMessages) - 1) :
                    storedMessages'[i] = storedMessages[i]
            /\ storedMessages[Len(storedMessages)].role = "user"
                    => storedMessages'[Len(storedMessages)]
                            = storedMessages[Len(storedMessages)]]_vars

\* A send has finished after two fragments and the chat was not cleared:
\* the conversation holds the user's message and the assistant's, whose
\* content is the two fragments.
C29_Witness ==
    /\ Len(sends) = 1
    /\ sends[1].pc = "done" /\ ~sends[1].cleared
    /\ Len(sends[1].yielded) = 2
    /\ Len(storedMessages) = 2
    /\ storedMessages[2].role = "assistant"
    /\ storedMessages[2].content = Text(<<"Hel", "lo">>)

====
